---------------------------- MODULE Spec2Model ----------------------------
(***************************************************************************)
(* A model of the ActivityWatch analysis engine (scripts/analyze_aw.py):   *)
(* categorisation, aggregation, switch and death-loop detection, scoring.  *)
(*                                                                         *)
(* Conventions.                                                            *)
(*  - A Python str is a sequence of one-character strings; a code point    *)
(*    outside ASCII is written "U+XXXX".                                   *)
(*  - Durations are whole seconds and weights are tenths (0.9 is 9), so    *)
(*    weighted_time is in tenths of a second.  Python computes in binary   *)
(*    floating point; the model computes the same expressions exactly.     *)
(*  - A dict whose iteration order the code relies on is a sequence in     *)
(*    insertion order; any other dict is a function on its keys.           *)
(***************************************************************************)
EXTENDS Integers, Sequences, FiniteSets, TLC

(***************************************************************************)
(* Strings                                                                 *)
(***************************************************************************)
\* str.lower() on the characters the model uses: A-Z and the one Cyrillic capital of
\* DEFAULT_CATEGORY_RULES; every other character of the model is its own lower case.
UpperChars ==
  <<"A", "B", "C", "D", "E", "F", "G", "H", "I", "J", "K", "L", "M",
    "N", "O", "P", "Q", "R", "S", "T", "U", "V", "W", "X", "Y", "Z", "U+0420">>
LowerChars ==
  <<"a", "b", "c", "d", "e", "f", "g", "h", "i", "j", "k", "l", "m",
    "n", "o", "p", "q", "r", "s", "t", "u", "v", "w", "x", "y", "z", "U+0440">>
\* The characters of the model in code point order (Python compares str by code point).
CharOrder ==
  <<" ", "!", "#", "$", "%", "&", "'", "(", ")", "*", "+", ",", "-", ".", "/", "0",
    "1", "2", "3", "4", "5", "6", "7", "8", "9", ":", ";", "<", "=", ">", "?", "@",
    "A", "B", "C", "D", "E", "F", "G", "H", "I", "J", "K", "L", "M", "N", "O", "P",
    "Q", "R", "S", "T", "U", "V", "W", "X", "Y", "Z", "[", "]", "^", "_", "a",
    "b", "c", "d", "e", "f", "g", "h", "i", "j", "k", "l", "m", "n", "o", "p", "q",
    "r", "s", "t", "u", "v", "w", "x", "y", "z", "{", "|", "}", "~", "U+0420", "U+0430", "U+0434",
    "U+0435", "U+0438", "U+043A", "U+0446", "U+044F", "U+2013", "U+2014", "U+2194", "U+2733">>
\* the table of c.lower(), tabulated once
LowerOf ==
  [c \in {UpperChars[i] : i \in 1..Len(UpperChars)} |->
     LowerChars[CHOOSE i \in 1..Len(UpperChars) : UpperChars[i] = c]] @@ <<>>

\* c.lower() for one character
LowerChar(c) == IF c \in DOMAIN LowerOf THEN LowerOf[c] ELSE c

\* s.lower()
lower(s) == [i \in 1..Len(s) |-> LowerChar(s[i])]

\* the position of each character in CharOrder, tabulated once
CharRank ==
  [c \in {CharOrder[i] : i \in 1..Len(CharOrder)} |->
     CHOOSE i \in 1..Len(CharOrder) : CharOrder[i] = c] @@ <<>>

\* ord(c)-order of the model's characters
CodePoint(c) == CharRank[c]

\* Python's  p in s  on str: p occurs in s as a contiguous substring
Contains(p, s) ==
  \E i \in 0..(Len(s) - Len(p)) : \A j \in 1..Len(p) : s[i + j] = p[j]

\* Python's  a < b  on str (lexicographic by code point)
RECURSIVE StrLess(_, _)
StrLess(a, b) ==
  IF a = <<>> THEN b # <<>>
  ELSE IF b = <<>> THEN FALSE
  ELSE IF Head(a) = Head(b) THEN StrLess(Tail(a), Tail(b))
  ELSE CodePoint(Head(a)) < CodePoint(Head(b))

Max(a, b) == IF a >= b THEN a ELSE b
Min(a, b) == IF a <= b THEN a ELSE b

\* s[:n]
Prefix(s, n) == SubSeq(s, 1, IF Len(s) < n THEN Len(s) ELSE n)

(***************************************************************************)
(* Configuration tables                                                    *)
(***************************************************************************)
\* analyze_aw.py:35-56. The dict is insertion ordered; it is a sequence here.
\* weight is in tenths (1.0 is 10, -0.3 is -3).
DEFAULT_CATEGORY_RULES ==
  <<
    [name |-> "deep_work", weight |-> 10,
     apps |-> <<
       <<"T", "e", "r", "m", "i", "n", "a", "l">>,
       <<"C", "u", "r", "s", "o", "r">>,
       <<"C", "o", "d", "e">>,
       <<"V", "S", "C", "o", "d", "e">>,
       <<"P", "y", "C", "h", "a", "r", "m">>
     >>,
     titles |-> <<
       <<"c", "l", "a", "u", "d", "e", " ", "c", "o", "d", "e">>,
       <<"g", "i", "t", " ">>
     >>],
    [name |-> "ai_tools", weight |-> 8,
     apps |-> <<
       <<"C", "l", "a", "u", "d", "e">>
     >>,
     titles |-> <<
       <<"C", "h", "a", "t", "G", "P", "T">>,
       <<"C", "l", "a", "u", "d", "e">>,
       <<"O", "p", "e", "n", "A", "I", " ", "P", "l", "a", "t", "f", "o", "r", "m">>,
       <<"G", "o", "o", "g", "l", "e", " ", "A", "I", " ", "S", "t", "u", "d", "i", "o">>
     >>],
    [name |-> "development", weight |-> 8,
     apps |-> <<
       <<"D", "B", "e", "a", "v", "e", "r">>,
       <<"P", "o", "s", "t", "m", "a", "n">>
     >>,
     titles |-> <<
       <<"S", "u", "p", "a", "b", "a", "s", "e">>,
       <<"l", "o", "c", "a", "l", "h", "o", "s", "t">>,
       <<"G", "i", "t", "H", "u", "b">>
     >>],
    [name |-> "writing", weight |-> 9,
     apps |-> <<
       <<"N", "o", "t", "i", "o", "n">>,
       <<"O", "b", "s", "i", "d", "i", "a", "n">>,
       <<"N", "o", "t", "e", "s">>
     >>,
     titles |-> <<
       <<"G", "o", "o", "g", "l", "e", " ", "D", "o", "c", "s">>
     >>],
    [name |-> "design", weight |-> 9,
     apps |-> <<
       <<"F", "i", "g", "m", "a">>,
       <<"S", "k", "e", "t", "c", "h">>
     >>,
     titles |-> <<
       <<"F", "i", "g", "m", "a">>,
       <<"C", "a", "n", "v", "a">>,
       <<"W", "e", "b", "f", "l", "o", "w">>
     >>],
    [name |-> "presentations", weight |-> 7,
     apps |-> <<
       <<"K", "e", "y", "n", "o", "t", "e">>,
       <<"M", "i", "c", "r", "o", "s", "o", "f", "t", " ", "P", "o", "w", "e", "r", "P", "o", "i", "n", "t">>
     >>,
     titles |-> <<
       <<"G", "o", "o", "g", "l", "e", " ", "S", "l", "i", "d", "e", "s">>
     >>],
    [name |-> "spreadsheets", weight |-> 6,
     apps |-> <<
       <<"N", "u", "m", "b", "e", "r", "s">>,
       <<"M", "i", "c", "r", "o", "s", "o", "f", "t", " ", "E", "x", "c", "e", "l">>
     >>,
     titles |-> <<
       <<"G", "o", "o", "g", "l", "e", " ", "S", "h", "e", "e", "t", "s">>
     >>],
    [name |-> "meetings", weight |-> 5,
     apps |-> <<
       <<"z", "o", "o", "m", ".", "u", "s">>,
       <<"Z", "o", "o", "m">>,
       <<"G", "o", "o", "g", "l", "e", " ", "M", "e", "e", "t">>
     >>,
     titles |-> <<
       <<"Z", "o", "o", "m", " ", "M", "e", "e", "t", "i", "n", "g">>
     >>],
    [name |-> "communication_work", weight |-> 3,
     apps |-> <<
       <<"S", "l", "a", "c", "k">>
     >>,
     titles |-> <<
       <<"S", "l", "a", "c", "k", " ", "|">>
     >>],
    [name |-> "communication_personal", weight |-> 1,
     apps |-> <<
       <<"T", "e", "l", "e", "g", "r", "a", "m">>,
       <<"M", "e", "s", "s", "a", "g", "e", "s">>,
       <<"W", "h", "a", "t", "s", "A", "p", "p">>
     >>,
     titles |-> <<>>],
    [name |-> "email", weight |-> 3,
     apps |-> <<
       <<"M", "a", "i", "l">>,
       <<"O", "u", "t", "l", "o", "o", "k">>
     >>,
     titles |-> <<
       <<"G", "m", "a", "i", "l">>,
       <<"I", "n", "b", "o", "x">>
     >>],
    [name |-> "learning", weight |-> 7,
     apps |-> <<>>,
     titles |-> <<
       <<"C", "o", "u", "r", "s", "e", "r", "a">>,
       <<"t", "u", "t", "o", "r", "i", "a", "l">>,
       <<"d", "o", "c", "u", "m", "e", "n", "t", "a", "t", "i", "o", "n">>,
       <<"S", "t", "a", "c", "k", " ", "O", "v", "e", "r", "f", "l", "o", "w">>
     >>],
    [name |-> "business_tools", weight |-> 5,
     apps |-> <<
       <<"S", "t", "r", "i", "p", "e">>
     >>,
     titles |-> <<
       <<"S", "t", "r", "i", "p", "e">>,
       <<"G", "o", "o", "g", "l", "e", " ", "C", "a", "l", "e", "n", "d", "a", "r">>,
       <<"A", "n", "a", "l", "y", "t", "i", "c", "s">>
     >>],
    [name |-> "content_creation", weight |-> 7,
     apps |-> <<>>,
     titles |-> <<
       <<"Y", "o", "u", "T", "u", "b", "e", " ", "S", "t", "u", "d", "i", "o">>,
       <<"C", "r", "e", "a", "t", "o", "r", " ", "S", "t", "u", "d", "i", "o">>
     >>],
    [name |-> "product_work", weight |-> 8,
     apps |-> <<>>,
     titles |-> <<
       <<"D", "a", "r", "w", "i", "n">>,
       <<"O", "n", "s", "a">>,
       <<"E", "m", "p", "a", "t", "i", "k", "a">>
     >>],
    [name |-> "social_media", weight |-> -3,
     apps |-> <<>>,
     titles |-> <<
       <<"T", "w", "i", "t", "t", "e", "r">>,
       <<"H", "o", "m", "e", " ", "/", " ", "X">>,
       <<"L", "i", "n", "k", "e", "d", "I", "n">>,
       <<"R", "e", "d", "d", "i", "t">>
     >>],
    [name |-> "entertainment", weight |-> -5,
     apps |-> <<
       <<"N", "e", "t", "f", "l", "i", "x">>,
       <<"S", "p", "o", "t", "i", "f", "y">>
     >>,
     titles |-> <<
       <<"N", "e", "t", "f", "l", "i", "x">>,
       <<"P", "r", "i", "m", "e", " ", "V", "i", "d", "e", "o">>,
       <<"P", "a", "r", "a", "m", "o", "u", "n", "t", "+">>,
       <<"W", "a", "t", "c", "h", " ">>,
       <<"L", "a", "n", "d", "m", "a", "n">>
     >>],
    [name |-> "news", weight |-> -2,
     apps |-> <<>>,
     titles |-> <<
       <<"N", "e", "w", "s">>,
       <<"U+0420", "U+0435", "U+0434", "U+0430", "U+043A", "U+0446", "U+0438", "U+044F">>,
       <<"H", "a", "c", "k", "e", "r", " ", "N", "e", "w", "s">>
     >>],
    [name |-> "system", weight |-> 0,
     apps |-> <<
       <<"l", "o", "g", "i", "n", "w", "i", "n", "d", "o", "w">>,
       <<"F", "i", "n", "d", "e", "r">>,
       <<"S", "y", "s", "t", "e", "m", "U", "I", "S", "e", "r", "v", "e", "r">>,
       <<"U", "s", "e", "r", "N", "o", "t", "i", "f", "i", "c", "a", "t", "i", "o", "n", "C", "e", "n", "t", "e", "r">>
     >>,
     titles |-> <<
       <<"F", "i", "n", "d", "e", "r">>
     >>],
    [name |-> "browser_idle", weight |-> 0,
     apps |-> <<>>,
     titles |-> <<
       <<"N", "e", "w", " ", "T", "a", "b">>,
       <<"U", "n", "t", "i", "t", "l", "e", "d">>
     >>]
  >>

\* analyze_aw.py:73-74
BROWSER_APPS ==
  {<<"G", "o", "o", "g", "l", "e", " ", "C", "h", "r", "o", "m", "e">>,
   <<"S", "a", "f", "a", "r", "i">>,
   <<"F", "i", "r", "e", "f", "o", "x">>,
   <<"A", "r", "c">>,
   <<"B", "r", "a", "v", "e">>,
   <<"E", "d", "g", "e">>,
   <<"C", "h", "a", "t", "G", "P", "T", " ", "A", "t", "l", "a", "s">>,
   <<"O", "p", "e", "r", "a">>,
   <<"V", "i", "v", "a", "l", "d", "i">>,
   <<"C", "h", "r", "o", "m", "i", "u", "m">>}

\* analyze_aw.py:81-186. Insertion ordered: keyword, site, category, weight in tenths.
KNOWN_SITES ==
  <<
    [keyword |-> <<"n", "e", "t", "f", "l", "i", "x">>,
     site |-> <<"N", "e", "t", "f", "l", "i", "x">>, category |-> "entertainment", weight |-> -5],
    [keyword |-> <<"p", "r", "i", "m", "e", " ", "v", "i", "d", "e", "o">>,
     site |-> <<"P", "r", "i", "m", "e", " ", "V", "i", "d", "e", "o">>, category |-> "entertainment", weight |-> -5],
    [keyword |-> <<"p", "a", "r", "a", "m", "o", "u", "n", "t", "+">>,
     site |-> <<"P", "a", "r", "a", "m", "o", "u", "n", "t", "+">>, category |-> "entertainment", weight |-> -5],
    [keyword |-> <<"p", "a", "r", "a", "m", "o", "u", "n", "t", " ", "p", "l", "u", "s">>,
     site |-> <<"P", "a", "r", "a", "m", "o", "u", "n", "t", "+">>, category |-> "entertainment", weight |-> -5],
    [keyword |-> <<"d", "i", "s", "n", "e", "y", "+">>,
     site |-> <<"D", "i", "s", "n", "e", "y", "+">>, category |-> "entertainment", weight |-> -5],
    [keyword |-> <<"h", "u", "l", "u">>,
     site |-> <<"H", "u", "l", "u">>, category |-> "entertainment", weight |-> -5],
    [keyword |-> <<"h", "b", "o", " ", "m", "a", "x">>,
     site |-> <<"H", "B", "O", " ", "M", "a", "x">>, category |-> "entertainment", weight |-> -5],
    [keyword |-> <<"t", "w", "i", "t", "c", "h">>,
     site |-> <<"T", "w", "i", "t", "c", "h">>, category |-> "entertainment", weight |-> -4],
    [keyword |-> <<"s", "p", "o", "t", "i", "f", "y">>,
     site |-> <<"S", "p", "o", "t", "i", "f", "y">>, category |-> "entertainment", weight |-> -3],
    [keyword |-> <<"c", "h", "a", "t", "g", "p", "t">>,
     site |-> <<"C", "h", "a", "t", "G", "P", "T">>, category |-> "ai_tools", weight |-> 8],
    [keyword |-> <<"c", "l", "a", "u", "d", "e", ".", "a", "i">>,
     site |-> <<"C", "l", "a", "u", "d", "e", ".", "a", "i">>, category |-> "ai_tools", weight |-> 8],
    [keyword |-> <<"c", "l", "a", "u", "d", "e", " ", "-">>,
     site |-> <<"C", "l", "a", "u", "d", "e", ".", "a", "i">>, category |-> "ai_tools", weight |-> 8],
    [keyword |-> <<"p", "e", "r", "p", "l", "e", "x", "i", "t", "y">>,
     site |-> <<"P", "e", "r", "p", "l", "e", "x", "i", "t", "y">>, category |-> "ai_tools", weight |-> 8],
    [keyword |-> <<"a", "n", "t", "h", "r", "o", "p", "i", "c">>,
     site |-> <<"A", "n", "t", "h", "r", "o", "p", "i", "c">>, category |-> "ai_tools", weight |-> 8],
    [keyword |-> <<"o", "p", "e", "n", "a", "i", " ", "p", "l", "a", "t", "f", "o", "r", "m">>,
     site |-> <<"O", "p", "e", "n", "A", "I">>, category |-> "ai_tools", weight |-> 8],
    [keyword |-> <<"o", "p", "e", "n", "a", "i", " ", "a", "p", "i">>,
     site |-> <<"O", "p", "e", "n", "A", "I">>, category |-> "ai_tools", weight |-> 8],
    [keyword |-> <<"g", "o", "o", "g", "l", "e", " ", "a", "i", " ", "s", "t", "u", "d", "i", "o">>,
     site |-> <<"G", "o", "o", "g", "l", "e", " ", "A", "I", " ", "S", "t", "u", "d", "i", "o">>, category |-> "ai_tools", weight |-> 8],
    [keyword |-> <<"l", "a", "n", "g", "s", "m", "i", "t", "h">>,
     site |-> <<"L", "a", "n", "g", "S", "m", "i", "t", "h">>, category |-> "ai_tools", weight |-> 8],
    [keyword |-> <<"l", "a", "n", "g", "c", "h", "a", "i", "n">>,
     site |-> <<"L", "a", "n", "g", "C", "h", "a", "i", "n">>, category |-> "ai_tools", weight |-> 8],
    [keyword |-> <<"g", "i", "t", "h", "u", "b">>,
     site |-> <<"G", "i", "t", "H", "u", "b">>, category |-> "development", weight |-> 9],
    [keyword |-> <<"g", "i", "t", "l", "a", "b">>,
     site |-> <<"G", "i", "t", "L", "a", "b">>, category |-> "development", weight |-> 9],
    [keyword |-> <<"l", "o", "c", "a", "l", "h", "o", "s", "t">>,
     site |-> <<"L", "o", "c", "a", "l", "h", "o", "s", "t">>, category |-> "development", weight |-> 10],
    [keyword |-> <<"1", "2", "7", ".", "0", ".", "0", ".", "1">>,
     site |-> <<"L", "o", "c", "a", "l", "h", "o", "s", "t">>, category |-> "development", weight |-> 10],
    [keyword |-> <<"s", "u", "p", "a", "b", "a", "s", "e">>,
     site |-> <<"S", "u", "p", "a", "b", "a", "s", "e">>, category |-> "development", weight |-> 8],
    [keyword |-> <<"v", "e", "r", "c", "e", "l">>,
     site |-> <<"V", "e", "r", "c", "e", "l">>, category |-> "development", weight |-> 8],
    [keyword |-> <<"n", "e", "t", "l", "i", "f", "y">>,
     site |-> <<"N", "e", "t", "l", "i", "f", "y">>, category |-> "development", weight |-> 8],
    [keyword |-> <<"f", "l", "y", ".", "i", "o">>,
     site |-> <<"F", "l", "y", ".", "i", "o">>, category |-> "development", weight |-> 8],
    [keyword |-> <<"r", "a", "i", "l", "w", "a", "y">>,
     site |-> <<"R", "a", "i", "l", "w", "a", "y">>, category |-> "development", weight |-> 8],
    [keyword |-> <<"r", "e", "n", "d", "e", "r", ".", "c", "o", "m">>,
     site |-> <<"R", "e", "n", "d", "e", "r">>, category |-> "development", weight |-> 8],
    [keyword |-> <<"h", "e", "r", "o", "k", "u">>,
     site |-> <<"H", "e", "r", "o", "k", "u">>, category |-> "development", weight |-> 8],
    [keyword |-> <<"a", "w", "s", " ", "c", "o", "n", "s", "o", "l", "e">>,
     site |-> <<"A", "W", "S">>, category |-> "development", weight |-> 8],
    [keyword |-> <<"s", "t", "a", "c", "k", " ", "o", "v", "e", "r", "f", "l", "o", "w">>,
     site |-> <<"S", "t", "a", "c", "k", " ", "O", "v", "e", "r", "f", "l", "o", "w">>, category |-> "development", weight |-> 8],
    [keyword |-> <<"s", "t", "a", "c", "k", "o", "v", "e", "r", "f", "l", "o", "w">>,
     site |-> <<"S", "t", "a", "c", "k", " ", "O", "v", "e", "r", "f", "l", "o", "w">>, category |-> "development", weight |-> 8],
    [keyword |-> <<"d", "e", "v", "t", "o", "o", "l", "s">>,
     site |-> <<"D", "e", "v", "T", "o", "o", "l", "s">>, category |-> "development", weight |-> 9],
    [keyword |-> <<"p", "a", "g", "e", "s", "p", "e", "e", "d">>,
     site |-> <<"P", "a", "g", "e", "S", "p", "e", "e", "d">>, category |-> "development", weight |-> 7],
    [keyword |-> <<"n", "8", "n">>,
     site |-> <<"n", "8", "n">>, category |-> "development", weight |-> 8],
    [keyword |-> <<"p", "o", "s", "t", "m", "a", "n">>,
     site |-> <<"P", "o", "s", "t", "m", "a", "n">>, category |-> "development", weight |-> 8],
    [keyword |-> <<"f", "i", "g", "m", "a">>,
     site |-> <<"F", "i", "g", "m", "a">>, category |-> "design", weight |-> 9],
    [keyword |-> <<"m", "i", "r", "o">>,
     site |-> <<"M", "i", "r", "o">>, category |-> "design", weight |-> 8],
    [keyword |-> <<"c", "a", "n", "v", "a">>,
     site |-> <<"C", "a", "n", "v", "a">>, category |-> "design", weight |-> 8],
    [keyword |-> <<"w", "e", "b", "f", "l", "o", "w">>,
     site |-> <<"W", "e", "b", "f", "l", "o", "w">>, category |-> "design", weight |-> 9],
    [keyword |-> <<"f", "r", "a", "m", "e", "r">>,
     site |-> <<"F", "r", "a", "m", "e", "r">>, category |-> "design", weight |-> 9],
    [keyword |-> <<"g", "o", "o", "g", "l", "e", " ", "d", "o", "c", "s">>,
     site |-> <<"G", "o", "o", "g", "l", "e", " ", "D", "o", "c", "s">>, category |-> "writing", weight |-> 9],
    [keyword |-> <<"n", "o", "t", "i", "o", "n">>,
     site |-> <<"N", "o", "t", "i", "o", "n">>, category |-> "writing", weight |-> 9],
    [keyword |-> <<"o", "b", "s", "i", "d", "i", "a", "n">>,
     site |-> <<"O", "b", "s", "i", "d", "i", "a", "n">>, category |-> "writing", weight |-> 9],
    [keyword |-> <<"m", "e", "d", "i", "u", "m">>,
     site |-> <<"M", "e", "d", "i", "u", "m">>, category |-> "reading", weight |-> 5],
    [keyword |-> <<"s", "u", "b", "s", "t", "a", "c", "k">>,
     site |-> <<"S", "u", "b", "s", "t", "a", "c", "k">>, category |-> "reading", weight |-> 5],
    [keyword |-> <<"g", "o", "o", "g", "l", "e", " ", "s", "h", "e", "e", "t", "s">>,
     site |-> <<"G", "o", "o", "g", "l", "e", " ", "S", "h", "e", "e", "t", "s">>, category |-> "spreadsheets", weight |-> 6],
    [keyword |-> <<"g", "o", "o", "g", "l", "e", " ", "s", "l", "i", "d", "e", "s">>,
     site |-> <<"G", "o", "o", "g", "l", "e", " ", "S", "l", "i", "d", "e", "s">>, category |-> "presentations", weight |-> 7],
    [keyword |-> <<"g", "o", "o", "g", "l", "e", " ", "c", "a", "l", "e", "n", "d", "a", "r">>,
     site |-> <<"G", "o", "o", "g", "l", "e", " ", "C", "a", "l", "e", "n", "d", "a", "r">>, category |-> "productivity", weight |-> 5],
    [keyword |-> <<"a", "i", "r", "t", "a", "b", "l", "e">>,
     site |-> <<"A", "i", "r", "t", "a", "b", "l", "e">>, category |-> "productivity", weight |-> 6],
    [keyword |-> <<"l", "i", "n", "e", "a", "r">>,
     site |-> <<"L", "i", "n", "e", "a", "r">>, category |-> "productivity", weight |-> 7],
    [keyword |-> <<"j", "i", "r", "a">>,
     site |-> <<"J", "i", "r", "a">>, category |-> "productivity", weight |-> 6],
    [keyword |-> <<"a", "s", "a", "n", "a">>,
     site |-> <<"A", "s", "a", "n", "a">>, category |-> "productivity", weight |-> 6],
    [keyword |-> <<"g", "m", "a", "i", "l">>,
     site |-> <<"G", "m", "a", "i", "l">>, category |-> "email", weight |-> 3],
    [keyword |-> <<"o", "u", "t", "l", "o", "o", "k">>,
     site |-> <<"O", "u", "t", "l", "o", "o", "k">>, category |-> "email", weight |-> 3],
    [keyword |-> <<"s", "l", "a", "c", "k">>,
     site |-> <<"S", "l", "a", "c", "k">>, category |-> "communication", weight |-> 3],
    [keyword |-> <<"d", "i", "s", "c", "o", "r", "d">>,
     site |-> <<"D", "i", "s", "c", "o", "r", "d">>, category |-> "communication", weight |-> 2],
    [keyword |-> <<"t", "w", "i", "t", "t", "e", "r">>,
     site |-> <<"T", "w", "i", "t", "t", "e", "r", "/", "X">>, category |-> "social_media", weight |-> -3],
    [keyword |-> <<" ", "/", " ", "x">>,
     site |-> <<"T", "w", "i", "t", "t", "e", "r", "/", "X">>, category |-> "social_media", weight |-> -3],
    [keyword |-> <<"x", ".", "c", "o", "m">>,
     site |-> <<"T", "w", "i", "t", "t", "e", "r", "/", "X">>, category |-> "social_media", weight |-> -3],
    [keyword |-> <<"l", "i", "n", "k", "e", "d", "i", "n">>,
     site |-> <<"L", "i", "n", "k", "e", "d", "I", "n">>, category |-> "social_media", weight |-> -2],
    [keyword |-> <<"f", "a", "c", "e", "b", "o", "o", "k">>,
     site |-> <<"F", "a", "c", "e", "b", "o", "o", "k">>, category |-> "social_media", weight |-> -3],
    [keyword |-> <<"i", "n", "s", "t", "a", "g", "r", "a", "m">>,
     site |-> <<"I", "n", "s", "t", "a", "g", "r", "a", "m">>, category |-> "social_media", weight |-> -3],
    [keyword |-> <<"r", "e", "d", "d", "i", "t">>,
     site |-> <<"R", "e", "d", "d", "i", "t">>, category |-> "social_media", weight |-> -3],
    [keyword |-> <<"t", "i", "k", "t", "o", "k">>,
     site |-> <<"T", "i", "k", "T", "o", "k">>, category |-> "social_media", weight |-> -4],
    [keyword |-> <<"c", "o", "u", "r", "s", "e", "r", "a">>,
     site |-> <<"C", "o", "u", "r", "s", "e", "r", "a">>, category |-> "learning", weight |-> 8],
    [keyword |-> <<"u", "d", "e", "m", "y">>,
     site |-> <<"U", "d", "e", "m", "y">>, category |-> "learning", weight |-> 8],
    [keyword |-> <<"a", "r", "x", "i", "v">>,
     site |-> <<"a", "r", "X", "i", "v">>, category |-> "learning", weight |-> 9],
    [keyword |-> <<"d", "e", "e", "p", "l", "e", "a", "r", "n", "i", "n", "g", ".", "a", "i">>,
     site |-> <<"D", "e", "e", "p", "L", "e", "a", "r", "n", "i", "n", "g", ".", "A", "I">>, category |-> "learning", weight |-> 8],
    [keyword |-> <<"h", "a", "c", "k", "e", "r", " ", "n", "e", "w", "s">>,
     site |-> <<"H", "a", "c", "k", "e", "r", " ", "N", "e", "w", "s">>, category |-> "news", weight |-> 2],
    [keyword |-> <<"t", "e", "c", "h", "c", "r", "u", "n", "c", "h">>,
     site |-> <<"T", "e", "c", "h", "C", "r", "u", "n", "c", "h">>, category |-> "news", weight |-> 1],
    [keyword |-> <<"s", "t", "r", "i", "p", "e">>,
     site |-> <<"S", "t", "r", "i", "p", "e">>, category |-> "business", weight |-> 6],
    [keyword |-> <<"p", "a", "y", "p", "a", "l">>,
     site |-> <<"P", "a", "y", "P", "a", "l">>, category |-> "business", weight |-> 5],
    [keyword |-> <<"h", "u", "b", "s", "p", "o", "t">>,
     site |-> <<"H", "u", "b", "S", "p", "o", "t">>, category |-> "business", weight |-> 5],
    [keyword |-> <<"s", "a", "l", "e", "s", "f", "o", "r", "c", "e">>,
     site |-> <<"S", "a", "l", "e", "s", "f", "o", "r", "c", "e">>, category |-> "business", weight |-> 5],
    [keyword |-> <<"g", "o", "o", "g", "l", "e", " ", "a", "n", "a", "l", "y", "t", "i", "c", "s">>,
     site |-> <<"G", "o", "o", "g", "l", "e", " ", "A", "n", "a", "l", "y", "t", "i", "c", "s">>, category |-> "business", weight |-> 6],
    [keyword |-> <<"m", "i", "x", "p", "a", "n", "e", "l">>,
     site |-> <<"M", "i", "x", "p", "a", "n", "e", "l">>, category |-> "business", weight |-> 6],
    [keyword |-> <<"y", "o", "u", "t", "u", "b", "e">>,
     site |-> <<"Y", "o", "u", "T", "u", "b", "e">>, category |-> "video", weight |-> 0],
    [keyword |-> <<"l", "o", "o", "m">>,
     site |-> <<"L", "o", "o", "m">>, category |-> "video", weight |-> 6],
    [keyword |-> <<"v", "i", "m", "e", "o">>,
     site |-> <<"V", "i", "m", "e", "o">>, category |-> "video", weight |-> 3]
  >>

\* analyze_aw.py:666
idle_apps ==
  {<<"l", "o", "g", "i", "n", "w", "i", "n", "d", "o", "w">>,
   <<"S", "c", "r", "e", "e", "n", "S", "a", "v", "e", "r", "E", "n", "g", "i", "n", "e">>,
   <<"L", "o", "c", "k", "S", "c", "r", "e", "e", "n">>}

Terminal == <<"T", "e", "r", "m", "i", "n", "a", "l">>

\* Python's None
None == "None"

(***************************************************************************)
(* categorize_activity (analyze_aw.py:599-618)                             *)
(***************************************************************************)
\* for app_pattern in rules["apps"]: if app_pattern.lower() in app.lower()
AppPatternHit(rule, app_lower) ==
  \E k \in 1..Len(rule.apps) : Contains(lower(rule.apps[k]), app_lower)

\* for title_pattern in rules["titles"]: if title_pattern.lower() in title_lower
TitlePatternHit(rule, title_lower) ==
  \E k \in 1..Len(rule.titles) : Contains(lower(rule.titles[k]), title_lower)

\* Mutant: the patterns are compared as written, without .lower().
RECURSIVE categorize_from_patterns_not_lowered(_, _, _, _)
categorize_from_patterns_not_lowered(rules, i, app_lower, title_lower) ==
  IF i > Len(rules) THEN [category |-> "uncategorized", weight |-> 0]
  ELSE IF \E k \in 1..Len(rules[i].apps) : Contains(rules[i].apps[k], app_lower)
       THEN [category |-> rules[i].name, weight |-> rules[i].weight]
  ELSE IF \E k \in 1..Len(rules[i].titles) : Contains(rules[i].titles[k], title_lower)
       THEN [category |-> rules[i].name, weight |-> rules[i].weight]
  ELSE categorize_from_patterns_not_lowered(rules, i + 1, app_lower, title_lower)

\* Mutant: the title patterns are looked for in the app name.
RECURSIVE categorize_from_titles_against_app(_, _, _, _)
categorize_from_titles_against_app(rules, i, app_lower, title_lower) ==
  IF i > Len(rules) THEN [category |-> "uncategorized", weight |-> 0]
  ELSE IF AppPatternHit(rules[i], app_lower)
       THEN [category |-> rules[i].name, weight |-> rules[i].weight]
  ELSE IF TitlePatternHit(rules[i], app_lower)
       THEN [category |-> rules[i].name, weight |-> rules[i].weight]
  ELSE categorize_from_titles_against_app(rules, i + 1, app_lower, title_lower)

\* The loop over the rules from position i on, and the default return.
RECURSIVE categorize_from(_, _, _, _)
categorize_from(rules, i, app_lower, title_lower) ==
  IF i > Len(rules) THEN [category |-> "uncategorized", weight |-> 0]
  ELSE IF AppPatternHit(rules[i], app_lower)
       THEN [category |-> rules[i].name, weight |-> rules[i].weight]
  ELSE IF TitlePatternHit(rules[i], title_lower)
       THEN [category |-> rules[i].name, weight |-> rules[i].weight]
  ELSE categorize_from(rules, i + 1, app_lower, title_lower)

\* categorize_activity with the rule table as a parameter
categorize_with(rules, app, title) == categorize_from(rules, 1, lower(app), lower(title))

(***************************************************************************)
(* detect_ai_agent (analyze_aw.py:224-253)                                 *)
(***************************************************************************)
\* the first test without "and 'code' not in title_lower"
detect_ai_agent_any_claude(title) ==
  LET title_lower == lower(title) IN
  IF \/ Contains(<<"U+2733">>, title)
     \/ Contains(<<"c", "l", "a", "u", "d", "e">>, title_lower)
  THEN "claude_code"
  ELSE IF Contains(<<"c", "o", "d", "e", "x">>, title_lower) THEN "codex"
  ELSE IF Contains(<<"a", "i", "d", "e", "r">>, title_lower) THEN "aider"
  ELSE IF \/ Contains(<<"g", "h", " ", "c", "o", "p", "i", "l", "o", "t">>, title_lower)
          \/ Contains(<<"g", "i", "t", "h", "u", "b", " ", "c", "o", "p", "i", "l", "o", "t">>,
                      title_lower)
  THEN "copilot"
  ELSE None

detect_ai_agent(title) ==
  LET title_lower == lower(title) IN
  IF \/ Contains(<<"U+2733">>, title)
     \/ /\ Contains(<<"c", "l", "a", "u", "d", "e">>, title_lower)
        /\ ~Contains(<<"c", "o", "d", "e">>, title_lower)
  THEN "claude_code"
  ELSE IF Contains(<<"c", "o", "d", "e", "x">>, title_lower) THEN "codex"
  ELSE IF Contains(<<"a", "i", "d", "e", "r">>, title_lower) THEN "aider"
  ELSE IF \/ Contains(<<"g", "h", " ", "c", "o", "p", "i", "l", "o", "t">>, title_lower)
          \/ Contains(<<"g", "i", "t", "h", "u", "b", " ", "c", "o", "p", "i", "l", "o", "t">>,
                      title_lower)
  THEN "copilot"
  ELSE None

(***************************************************************************)
(* extract_site_from_title (analyze_aw.py:188-217)                         *)
(***************************************************************************)
\* str.strip() (the only whitespace of the model's alphabet is the space)
RECURSIVE lstrip(_)
lstrip(s) == IF s # <<>> /\ Head(s) = " " THEN lstrip(Tail(s)) ELSE s

RECURSIVE rstrip(_)
rstrip(s) ==
  IF s # <<>> /\ s[Len(s)] = " " THEN rstrip(SubSeq(s, 1, Len(s) - 1)) ELSE s

strip(s) == rstrip(lstrip(s))

\* title.rsplit(separator, 1)[1] when separator occurs in title
AfterLast(title, separator) ==
  LET starts == {i \in 0..(Len(title) - Len(separator)) :
                    \A j \in 1..Len(separator) : title[i + j] = separator[j]}
      last == CHOOSE i \in starts : \A k \in starts : k <= i
  IN SubSeq(title, last + Len(separator) + 1, Len(title))

\* for keyword, (site, category, weight) in KNOWN_SITES.items(): if keyword in text.
\* The position of the first keyword found in text, 0 when the loop falls through.
RECURSIVE known_site_from(_, _)
known_site_from(i, text) ==
  IF i > Len(KNOWN_SITES) THEN 0
  ELSE IF Contains(KNOWN_SITES[i].keyword, text) THEN i
  ELSE known_site_from(i + 1, text)

\* return (site, category, weight)
KnownSite(i) ==
  [site |-> KNOWN_SITES[i].site, category |-> KNOWN_SITES[i].category,
   weight |-> KNOWN_SITES[i].weight]

Separators ==
  <<<<" ", "-", " ">>, <<" ", "|", " ">>, <<" ", "U+2013", " ">>, <<" ", "U+2014", " ">>>>

SITE_NAME_MAX == 40

\* The loop over the separators from position i on, and the fallback return.
RECURSIVE site_from_separators(_, _)
site_from_separators(i, title) ==
  IF i > Len(Separators)
  THEN IF Len(title) > SITE_NAME_MAX
       THEN [site |-> Prefix(title, SITE_NAME_MAX - 3) \o <<".", ".", ".">>,
             category |-> "uncategorized", weight |-> 0]
       ELSE [site |-> IF title # <<>> THEN title
                      ELSE <<"U", "n", "k", "n", "o", "w", "n">>,
             category |-> "uncategorized", weight |-> 0]
  ELSE IF /\ Contains(Separators[i], title)
          /\ Len(AfterLast(title, Separators[i])) < SITE_NAME_MAX
       THEN LET site_name == strip(AfterLast(title, Separators[i]))
                known == known_site_from(1, lower(site_name))
            IN IF known # 0 THEN KnownSite(known)
               ELSE [site |-> site_name, category |-> "uncategorized", weight |-> 0]
  ELSE site_from_separators(i + 1, title)

extract_site_from_title(title) ==
  LET known == known_site_from(1, lower(title)) IN
  IF known # 0 THEN KnownSite(known) ELSE site_from_separators(1, title)

(***************************************************************************)
(* Input: the rows csv.DictReader yields, the timezone, the config file    *)
(***************************************************************************)
\* A row's timestamp either parses (datetime.fromisoformat) to a UTC instant, kept as
\* whole hours since the epoch, or does not parse.  A row's duration is a number of
\* seconds, or the key is absent from the row (row.get returns the default 0), or it
\* is a value float() rejects ('' or text, or None for a short row).
Row(ts_ok, utc_hour, kind, secs, app, title) ==
  [timestamp |-> [parses |-> ts_ok, utc_hour |-> utc_hour],
   duration |-> [kind |-> kind, value |-> secs],
   app |-> app, title |-> title]

r_terminal_claude ==
  Row(TRUE, 33, "number", 600, Terminal, <<"c", "l", "a", "u", "d", "e">>)
r_terminal_task ==
  Row(TRUE, 33, "number", 0, Terminal, <<"U+2733", " ", "f", "i", "x">>)
r_terminal_zsh ==
  Row(TRUE, 38, "number", 299, Terminal, <<"z", "s", "h">>)
r_telegram ==
  Row(TRUE, 33, "number", 60, <<"T", "e", "l", "e", "g", "r", "a", "m">>, <<>>)
r_slack ==
  Row(TRUE, 38, "number", 60, <<"S", "l", "a", "c", "k">>, <<>>)
r_cursor ==
  Row(TRUE, 33, "number", 3600, <<"C", "u", "r", "s", "o", "r">>,
      <<"m", "a", "i", "n", ".", "p", "y">>)
r_chrome_netflix ==
  Row(TRUE, 47, "number", 4000,
      <<"G", "o", "o", "g", "l", "e", " ", "C", "h", "r", "o", "m", "e">>,
      <<"N", "e", "t", "f", "l", "i", "x", " ", "-", " ", "W", "a", "t", "c", "h">>)
r_chrome_newtab ==
  Row(TRUE, 33, "number", 30,
      <<"G", "o", "o", "g", "l", "e", " ", "C", "h", "r", "o", "m", "e">>,
      <<"N", "e", "w", " ", "T", "a", "b">>)
r_safari_docs ==
  Row(TRUE, 57, "number", 300, <<"S", "a", "f", "a", "r", "i">>,
      <<"G", "o", "o", "g", "l", "e", " ", "D", "o", "c", "s", " ", "-", " ",
        "M", "y", " ", "P", "r", "o", "p", "o", "s", "a", "l">>)
r_finder ==
  Row(TRUE, 33, "number", 10, <<"F", "i", "n", "d", "e", "r">>, <<>>)
r_loginwindow ==
  Row(TRUE, 33, "number", 500,
      <<"l", "o", "g", "i", "n", "w", "i", "n", "d", "o", "w">>, <<>>)
r_bad_timestamp ==
  Row(FALSE, 0, "number", 60, <<"S", "l", "a", "c", "k">>,
      <<"s", "t", "a", "n", "d", "u", "p">>)
r_no_duration ==
  Row(TRUE, 38, "absent", 0, <<"P", "o", "s", "t", "m", "a", "n">>, <<>>)
r_bad_duration ==
  Row(TRUE, 38, "invalid", 0, <<"S", "p", "o", "t", "i", "f", "y">>, <<>>)
r_empty_app ==
  Row(TRUE, 33, "number", 300, <<>>,
      <<"G", "o", "o", "g", "l", "e", " ", "D", "o", "c", "s", " ", "-", " ",
        "M", "y", " ", "P", "r", "o", "p", "o", "s", "a", "l">>)

\* The rows short files are made of.
RowPool ==
  {r_terminal_claude, r_terminal_task, r_terminal_zsh, r_telegram, r_slack, r_cursor,
   r_chrome_netflix, r_chrome_newtab, r_safari_docs, r_finder, r_loginwindow,
   r_bad_timestamp, r_no_duration, r_bad_duration, r_empty_app}

\* Longest file made of freely chosen rows.
MaxFree == 2

RECURSIVE SeqsUpTo(_, _)
SeqsUpTo(S, n) ==
  IF n = 0 THEN {<<>>}
  ELSE LET shorter == SeqsUpTo(S, n - 1)
       IN shorter \cup {Append(f, r) : f \in {g \in shorter : Len(g) = n - 1}, r \in S}

ShortFiles == SeqsUpTo(RowPool, MaxFree)

\* n rows alternating x, y, x, y, ...: n - 1 switches when the apps differ
Alternating(x, y, n) == [i \in 1..n |-> IF i % 2 = 1 THEN x ELSE y]

\* analyze_aw.py:799, the death-loop threshold  v >= 20
DEATH_LOOP_MIN == 20
\* analyze_aw.py:802, the cap  [:10]
DEATH_LOOP_CAP == 10

\* Rows beyond the threshold in a file that alternates between two rows.
LoopSlack == 3

LoopPairs ==
  {<<r_terminal_claude, r_telegram>>, <<r_telegram, r_terminal_claude>>,
   <<r_terminal_claude, r_slack>>, <<r_terminal_zsh, r_slack>>,
   <<r_terminal_claude, r_cursor>>, <<r_terminal_zsh, r_cursor>>,
   <<r_cursor, r_chrome_netflix>>, <<r_slack, r_finder>>,
   <<r_terminal_task, r_safari_docs>>, <<r_terminal_claude, r_terminal_zsh>>}

LoopFiles ==
  {Alternating(p[1], p[2], n) :
     p \in LoopPairs, n \in DEATH_LOOP_MIN..(DEATH_LOOP_MIN + LoopSlack)}

\* A tour alternates between the two rows of one pair after another: every pair of six
\* apps, so that more pairs than DEATH_LOOP_CAP can reach the threshold.
TourPairs ==
  <<<<r_terminal_claude, r_slack>>, <<r_terminal_claude, r_telegram>>,
    <<r_cursor, r_finder>>, <<r_terminal_zsh, r_cursor>>,
    <<r_slack, r_chrome_netflix>>, <<r_telegram, r_cursor>>,
    <<r_finder, r_terminal_claude>>, <<r_slack, r_cursor>>,
    <<r_chrome_netflix, r_terminal_zsh>>, <<r_telegram, r_finder>>,
    <<r_slack, r_telegram>>, <<r_chrome_netflix, r_finder>>,
    <<r_cursor, r_chrome_netflix>>, <<r_finder, r_slack>>,
    <<r_telegram, r_chrome_netflix>>>>

\* Pairs in the longest tour.
MaxTour == 12

\* rows in the i-th block of a tour, DEATH_LOOP_MIN + 1 to DEATH_LOOP_MIN + 7: each pair
\* of a tour switches at least DEATH_LOOP_MIN times
TourBlockRows(i) == DEATH_LOOP_MIN + 1 + ((i * 5) % 7)

RECURSIVE Tour(_)
Tour(k) ==
  IF k = 0 THEN <<>>
  ELSE Tour(k - 1) \o Alternating(TourPairs[k][1], TourPairs[k][2], TourBlockRows(k))

TourFiles == {Tour(k) : k \in 1..Min(MaxTour, Len(TourPairs))}

\* A config file load_category_rules can return (main, --config): weights outside the
\* nominal range [-0.5, 1.0] are legal.
CUSTOM_CATEGORY_RULES ==
  <<[name |-> "coding", weight |-> 20,
     apps |-> <<<<"C", "u", "r", "s", "o", "r">>>>, titles |-> <<>>],
    [name |-> "chat", weight |-> -10,
     apps |-> <<<<"s", "l", "a", "c", "k">>, <<"T", "e", "l", "e", "g", "r", "a", "m">>>>,
     titles |-> <<>>],
    [name |-> "entertainment", weight |-> -5,
     apps |-> <<>>, titles |-> <<<<"n", "e", "t", "f", "l", "i", "x">>>>]>>

ConfigFiles == {CUSTOM_CATEGORY_RULES}

\* UTC offsets, in hours, of the timezones a run is given.
Timezones == {0, -10}

(***************************************************************************)
(* State                                                                   *)
(***************************************************************************)
VARIABLES
  CATEGORY_RULES,        \* the module-level rule table (line 70)
  pc,                    \* where the process is: "main", "loop", "returned", "raised"
  file,                  \* the rows of the CSV file given to the process
  local_tz,              \* UTC offset of the run's timezone
  next_row,              \* the reader's position in file
  app_time, category_time, hourly_activity, hourly_by_category,
  daily_activity, daily_by_category, hourly_switches, switches,
  browser_titles, browser_sites, browser_total_time,
  ai_agent_time, ai_assisted_switches, idle_time,
  weighted_time, total_active_time, prev_app, prev_title, total_events,
  summary,               \* the value the running call returned
  returned,              \* summaries of the calls that returned, oldest first
  cat_app, cat_title, cat_ret,  \* one call of categorize_activity: arguments and result
  pid_file,              \* focus_guard.py: contents of PID_FILE, None when the file is absent
  at,                    \* focus_guard.py: where each Focus Guard process is
  pid,                   \* focus_guard.py: the local pid of is_running in each process
  clock,                 \* time.time(): seconds, read by the guard loops
  processes,             \* the applications that are running (get_running_apps)
  now,                   \* the local now of the loop iteration
  recently_warned,       \* app -> last_warned_time; 0 stands for a missing key
  frontmost, deep_work_start, last_deep_work, focus_active,   \* run_auto_guard locals
  deep_work_seconds,     \* seconds a deep-work app has been frontmost since the loop
                         \* began or focus mode was last deactivated
  args,                  \* run_guard: args.warn_only and args.hard_block of main
  warn_only,             \* run_guard: warn_only after lines 325-326
  running_apps,          \* run_guard: running_apps of line 365
  todo,                  \* run_guard: the apps  for app in blocked_apps  has yet to visit
  blocked_app,           \* run_guard: the loop variable app during the grace period
  last_quit,             \* the last call of quit_app: the app, its warning, the time
  settings,              \* check_interval, grace_period, trigger_minutes (lines 318-428)
  duration_hours,        \* run_guard: the duration given to it, in seconds
  end_time               \* run_guard: end_time of lines 311-313

\* the accumulators of analyze_csv_enhanced (lines 641-670)
accumulators ==
  <<app_time, category_time, hourly_activity, hourly_by_category,
    daily_activity, daily_by_category, hourly_switches, switches,
    browser_titles, browser_sites, browser_total_time,
    ai_agent_time, ai_assisted_switches, idle_time,
    weighted_time, total_active_time>>

locals == <<accumulators, prev_app, prev_title, total_events, next_row>>

catVars == <<cat_app, cat_title, cat_ret>>

\* the state of focus_guard.py
startVars == <<pid_file, at, pid>>

autoVars == <<frontmost, deep_work_start, last_deep_work, focus_active, deep_work_seconds>>

runVars == <<args, warn_only, running_apps, todo, blocked_app, last_quit, settings, duration_hours, end_time>>

guardVars == <<startVars, clock, processes, now, recently_warned, autoVars, runVars>>

vars ==
  <<CATEGORY_RULES, pc, file, local_tz, locals, summary, returned, catVars, guardVars>>

\* defaultdict(float) / defaultdict(int): a function on the keys written so far
EmptyMap == [k \in {} |-> 0]
Get(m, k) == IF k \in DOMAIN m THEN m[k] ELSE 0
\* the same with  =  in place of  +=
Add_overwrites(m, k, d) ==
  IF k \in DOMAIN m THEN [m EXCEPT ![k] = d] ELSE m @@ (k :> d)
Add(m, k, d) ==
  IF k \in DOMAIN m THEN [m EXCEPT ![k] = @ + d] ELSE m @@ (k :> d)

\* the same for a dict whose insertion order is used later: a sequence of key, value
OGet(s, k) ==
  IF \E i \in 1..Len(s) : s[i].key = k
  THEN s[CHOOSE i \in 1..Len(s) : s[i].key = k].value ELSE 0
OAdd(s, k, d) ==
  IF \E i \in 1..Len(s) : s[i].key = k
  THEN [i \in 1..Len(s) |-> IF s[i].key = k THEN [s[i] EXCEPT !.value = @ + d] ELSE s[i]]
  ELSE Append(s, [key |-> k, value |-> d])

\* prev_app = None, prev_title = None (lines 672-673): a value no str equals
NoneStr == <<None>>
\* truth value of an Optional[str]
Truthy(s) == s # NoneStr /\ s # <<>>

NoSummary == [status |-> "none"]

\* categorize_with, tabulated once for the rule tables and the (app, title) pairs of the
\* files: the analysis calls it for every row and again for every switch and loop.
TabulatedRules == {DEFAULT_CATEGORY_RULES} \cup ConfigFiles
TabulatedCalls ==
  {<<r.app, r.title>> : r \in RowPool} \cup {<<r.app, <<>>>> : r \in RowPool}
CategoryTable ==
  [rules \in TabulatedRules |->
     [call \in TabulatedCalls |-> categorize_with(rules, call[1], call[2])] @@ <<>>] @@ <<>>

\* categorize_activity reads the module-level CATEGORY_RULES
categorize_activity(app, title) ==
  IF CATEGORY_RULES \in TabulatedRules /\ <<app, title>> \in TabulatedCalls
  THEN CategoryTable[CATEGORY_RULES][<<app, title>>]
  ELSE categorize_with(CATEGORY_RULES, app, title)

(***************************************************************************)
(* analyze_csv_enhanced, lines 640-678: a call's fresh locals              *)
(***************************************************************************)
\* Mutant: the switch list outlives the call, as a module-level list would.
FreshLocals_switches_kept ==
  /\ app_time' = EmptyMap /\ category_time' = EmptyMap
  /\ hourly_activity' = EmptyMap /\ hourly_by_category' = EmptyMap
  /\ daily_activity' = EmptyMap /\ daily_by_category' = EmptyMap
  /\ hourly_switches' = EmptyMap /\ switches' = switches
  /\ browser_titles' = <<>> /\ browser_sites' = EmptyMap /\ browser_total_time' = 0
  /\ ai_agent_time' = EmptyMap /\ ai_assisted_switches' = <<>>
  /\ idle_time' = 0 /\ weighted_time' = 0 /\ total_active_time' = 0
  /\ prev_app' = NoneStr /\ prev_title' = NoneStr /\ total_events' = 0
  /\ next_row' = 1

\* lines 640-678: the locals of a call, as the function body initialises them
FreshLocals ==
  /\ app_time' = EmptyMap /\ category_time' = EmptyMap
  /\ hourly_activity' = EmptyMap /\ hourly_by_category' = EmptyMap
  /\ daily_activity' = EmptyMap /\ daily_by_category' = EmptyMap
  /\ hourly_switches' = EmptyMap /\ switches' = <<>>
  /\ browser_titles' = <<>> /\ browser_sites' = EmptyMap /\ browser_total_time' = 0
  /\ ai_agent_time' = EmptyMap /\ ai_assisted_switches' = <<>>
  /\ idle_time' = 0 /\ weighted_time' = 0 /\ total_active_time' = 0
  /\ prev_app' = NoneStr /\ prev_title' = NoneStr /\ total_events' = 0
  /\ next_row' = 1

InitLocals ==
  /\ app_time = EmptyMap /\ category_time = EmptyMap
  /\ hourly_activity = EmptyMap /\ hourly_by_category = EmptyMap
  /\ daily_activity = EmptyMap /\ daily_by_category = EmptyMap
  /\ hourly_switches = EmptyMap /\ switches = <<>>
  /\ browser_titles = <<>> /\ browser_sites = EmptyMap /\ browser_total_time = 0
  /\ ai_agent_time = EmptyMap /\ ai_assisted_switches = <<>>
  /\ idle_time = 0 /\ weighted_time = 0 /\ total_active_time = 0
  /\ prev_app = NoneStr /\ prev_title = NoneStr /\ total_events = 0
  /\ next_row = 1

\* no call of categorize_activity on its own is in progress
InitCat ==
  /\ cat_app = <<>> /\ cat_title = <<>>
  /\ cat_ret = [category |-> "not called", weight |-> 0]

\* read_pid returns None when there is no PID file (line 235); no process has pid 0
NoPid == 0

\* Focus Guard processes that are started.
NumGuards == 3

\* the process ids of the Focus Guard processes
Guards == 1..NumGuards

\* deep_work_start = None, last_deep_work = None (lines 453-454); time.time() is never 0
NoTime == 0

\* time.time() when a guard loop is entered
StartTime == 1000

\* config["blocked_apps"] as given by  --block Telegram Slack  (lines 582-583)
blocked_apps == {"Telegram", "Slack"}

\* DEFAULT_CONFIG["deep_work_apps"] (lines 55-66)
deep_work_apps ==
  {"Terminal", "Cursor", "Code", "Xcode", "PyCharm", "IntelliJ IDEA", "WebStorm",
   "Sublime Text", "Neovim", "Vim"}

\* quit_app has not been called
NoQuit == [app |-> None, warned |-> NoTime, time |-> NoTime]

\* main, lines 585-590, and run_guard, lines 325-326, with the default
\* settings["warn_only"] (True, line 82)
WarnOnly(a) ==
  IF a.warn_only THEN TRUE ELSE IF a.hard_block THEN FALSE ELSE TRUE

\* neither --warn-only nor --hard-block is given
NoFlags == [warn_only |-> FALSE, hard_block |-> FALSE]

\* settings["check_interval_seconds"] of the config file, in seconds.
CheckInterval == 60

\* settings.get("grace_period_seconds", 5), line 321
grace_period == 5

\* auto_config.get("trigger_minutes", 5), line 426
trigger_minutes == 5

\* check_interval, grace_period and trigger_minutes as run_guard and run_auto_guard
\* read them from the config file (lines 318, 321, 426, 428)
ConfiguredSettings ==
  [check_interval |-> CheckInterval, grace_period |-> grace_period,
   trigger_minutes |-> trigger_minutes]

\* duration_hours of a run without --duration (line 302)
NoDuration == -1

\* lines 311-313: end_time, for a run that reaches the loop at StartTime
EndTimeOf(duration) ==
  IF duration # NoDuration /\ duration # 0 THEN StartTime + duration ELSE NoTime

\* the locals of run_guard and run_auto_guard before the loop (lines 349, 453-456)
LoopLocals ==
  /\ clock = StartTime
  /\ now = NoTime
  /\ recently_warned = [app \in blocked_apps |-> 0]
  /\ frontmost = None
  /\ deep_work_start = NoTime
  /\ last_deep_work = NoTime
  /\ focus_active = FALSE
  /\ deep_work_seconds = 0
  /\ running_apps = {}
  /\ todo = {}
  /\ blocked_app = None
  /\ last_quit = NoQuit

\* no Focus Guard process has been started and there is no PID file
NoGuard ==
  /\ pid_file = NoPid
  /\ at = [g \in Guards |-> "not started"]
  /\ pid = [g \in Guards |-> NoPid]
  /\ processes = {}
  /\ args = NoFlags
  /\ warn_only = WarnOnly(NoFlags)
  /\ settings = ConfiguredSettings
  /\ duration_hours = NoDuration
  /\ end_time = NoTime
  /\ LoopLocals

(***************************************************************************)
(* main, lines 1299-1303: --config replaces the contents of CATEGORY_RULES *)
(***************************************************************************)
LoadConfig ==
  /\ pc = "main"
  /\ returned = <<>>
  /\ CATEGORY_RULES = DEFAULT_CATEGORY_RULES
  /\ \E loaded_rules \in ConfigFiles : CATEGORY_RULES' = loaded_rules
  /\ UNCHANGED <<pc, file, local_tz, locals, summary, returned, catVars, guardVars>>

\* Calls of analyze_csv_enhanced one process makes.
MaxRuns == 2

(***************************************************************************)
(* analyze_csv_enhanced is called (lines 621-681)                          *)
(***************************************************************************)
Call ==
  /\ pc \in {"main", "returned"}
  /\ Len(returned) < MaxRuns
  /\ pc' = "loop"
  /\ FreshLocals
  /\ summary' = NoSummary
  /\ UNCHANGED <<CATEGORY_RULES, file, local_tz, returned, catVars, guardVars>>

(***************************************************************************)
(* One iteration of  for row in reader  (lines 683-783)                    *)
(***************************************************************************)
BROWSER_TITLE_MAX == 60

\* lines 763-777: the agent a switch is tagged with
SwitchAgent(app, title) ==
  IF prev_app = Terminal \/ app = Terminal
  THEN LET terminal_title == IF app = Terminal THEN title ELSE prev_title
       IN IF Truthy(terminal_title) THEN detect_ai_agent(terminal_title) ELSE None
  ELSE None

DISTRACTING == {"communication_personal", "social_media", "entertainment"}

\* Mutant: every tagged switch is left out of the focus penalty.
SwitchIsAiAssisted_any_tag(app, title) == SwitchAgent(app, title) # None

\* lines 774-777: the switch is left out of the focus penalty
SwitchIsAiAssisted(app, title) ==
  /\ SwitchAgent(app, title) # None
  /\ LET other_app == IF app = Terminal THEN prev_app ELSE app
     IN categorize_activity(other_app, <<>>).category \notin DISTRACTING

INERT == {"system", "browser_idle"}

\* lines 733-745
BrowserRow(duration, app, title) ==
  IF app \in BROWSER_APPS
  THEN /\ browser_total_time' = browser_total_time + duration
       /\ LET clean_title == strip(Prefix(title, BROWSER_TITLE_MAX))
          IN IF /\ clean_title # <<>>
                /\ clean_title \notin {<<"N", "e", "w", " ", "T", "a", "b">>,
                                       <<"U", "n", "t", "i", "t", "l", "e", "d">>, <<>>}
             THEN LET s == extract_site_from_title(title)
                      before == IF s.site \in DOMAIN browser_sites
                                THEN browser_sites[s.site].time ELSE 0
                      entry == [time |-> before + duration, category |-> s.category,
                                weight |-> s.weight]
                  IN /\ browser_titles' = OAdd(browser_titles, clean_title, duration)
                     /\ browser_sites' =
                          IF s.site \in DOMAIN browser_sites
                          THEN [browser_sites EXCEPT ![s.site] = entry]
                          ELSE browser_sites @@ (s.site :> entry)
             ELSE UNCHANGED <<browser_titles, browser_sites>>
  ELSE UNCHANGED <<browser_total_time, browser_titles, browser_sites>>

\* Mutant: a row of the same app as the row before it counts as a switch too.
SwitchRow_every_row(hour, day, app, title) ==
  IF Truthy(prev_app)
  THEN /\ switches' = Append(switches,
                             [from |-> prev_app, to |-> app, hour |-> hour, day |-> day,
                              ai_agent |-> SwitchAgent(app, title)])
       /\ ai_assisted_switches' =
            IF SwitchIsAiAssisted(app, title)
            THEN Append(ai_assisted_switches, Len(switches))
            ELSE ai_assisted_switches
       /\ hourly_switches' = Add(hourly_switches, hour, 1)
  ELSE UNCHANGED <<switches, ai_assisted_switches, hourly_switches>>

\* lines 753-780
SwitchRow(hour, day, app, title) ==
  IF Truthy(prev_app) /\ prev_app # app
  THEN /\ switches' = Append(switches,
                             [from |-> prev_app, to |-> app, hour |-> hour, day |-> day,
                              ai_agent |-> SwitchAgent(app, title)])
       /\ ai_assisted_switches' =
            IF SwitchIsAiAssisted(app, title)
            THEN Append(ai_assisted_switches, Len(switches))
            ELSE ai_assisted_switches
       /\ hourly_switches' = Add(hourly_switches, hour, 1)
  ELSE UNCHANGED <<switches, ai_assisted_switches, hourly_switches>>

\* Mutant: category_time is updated in the branch that follows the inert-category test.
category_time_after_active_only(category, duration) ==
  IF category \notin INERT THEN Add(category_time, category, duration) ELSE category_time

\* line 720: category_time[category] += duration
category_time_after(category, duration) == Add(category_time, category, duration)

\* lines 706-783: a row of an app that is not an idle app
ActiveRow(ts, duration, app, title) ==
  LET agent == IF app = Terminal THEN detect_ai_agent(title) ELSE None
      c == categorize_activity(app, title)
      category == c.category
      weight == c.weight
      hour == ts % 24
      day == ts \div 24
  IN /\ ai_agent_time' =
          IF agent # None THEN Add(ai_agent_time, agent, duration) ELSE ai_agent_time
     /\ app_time' = Add(app_time, app, duration)
     /\ category_time' = category_time_after(category, duration)
     /\ hourly_activity' = Add(hourly_activity, hour, duration)
     /\ hourly_by_category' = Add(hourly_by_category, <<hour, category>>, duration)
     /\ daily_activity' = Add(daily_activity, day, duration)
     /\ daily_by_category' = Add(daily_by_category, <<day, category>>, duration)
     /\ BrowserRow(duration, app, title)
     /\ IF category \notin INERT
        THEN /\ weighted_time' = weighted_time + duration * weight
             /\ total_active_time' = total_active_time + duration
        ELSE UNCHANGED <<weighted_time, total_active_time>>
     /\ SwitchRow(hour, day, app, title)
     /\ prev_app' = app
     /\ prev_title' = title
     /\ UNCHANGED idle_time

\* Mutant: the idle row is remembered as the previous event.
IdleRow_remembered(duration, app, title) ==
  /\ idle_time' = idle_time + duration
  /\ prev_app' = app
  /\ prev_title' = title
  /\ UNCHANGED <<app_time, category_time, hourly_activity,
                 hourly_by_category, daily_activity, daily_by_category,
                 hourly_switches, switches, browser_titles, browser_sites,
                 browser_total_time, ai_agent_time, ai_assisted_switches,
                 weighted_time, total_active_time>>

\* lines 702-704: a row of an idle app
IdleRow(duration, app, title) ==
  /\ idle_time' = idle_time + duration
  /\ UNCHANGED <<app_time, category_time, hourly_activity,
                 hourly_by_category, daily_activity, daily_by_category,
                 hourly_switches, switches, browser_titles, browser_sites,
                 browser_total_time, ai_agent_time, ai_assisted_switches,
                 weighted_time, total_active_time, prev_app, prev_title>>

\* line 697: float(row.get('duration', 0)) when it does not raise
DurationOf(row) == IF row.duration.kind = "number" THEN row.duration.value ELSE 0

\* line 690: ts_utc.astimezone(local_tz), in whole hours
LocalTime(row) == row.timestamp.utc_hour + local_tz

ReadRow ==
  /\ pc = "loop"
  /\ next_row <= Len(file)
  /\ LET row == file[next_row] IN
     /\ next_row' = next_row + 1
     /\ total_events' = total_events + 1
     /\ IF ~row.timestamp.parses
        THEN \* except: continue
             UNCHANGED <<pc, accumulators, prev_app, prev_title>>
        ELSE IF row.duration.kind = "invalid"
        THEN \* float() raises ValueError or TypeError, which nothing catches
             /\ pc' = "raised"
             /\ UNCHANGED <<accumulators, prev_app, prev_title>>
        ELSE IF row.app \in idle_apps
        THEN /\ IdleRow(DurationOf(row), row.app, row.title)
             /\ UNCHANGED pc
        ELSE /\ ActiveRow(LocalTime(row), DurationOf(row), row.app, row.title)
             /\ UNCHANGED pc
  /\ UNCHANGED <<CATEGORY_RULES, file, local_tz, summary, returned, catVars, guardVars>>

(***************************************************************************)
(* Arithmetic of the post-loop code.  x / y raises ZeroDivisionError when  *)
(* y is 0; a quotient is kept exact, as numerator and denominator, until   *)
(* the code rounds or truncates it.                                        *)
(***************************************************************************)
TrueDiv(n, d) ==
  IF d = 0 THEN [raises |-> TRUE, num |-> 0, den |-> 1]
  ELSE [raises |-> FALSE, num |-> n, den |-> d]

\* the literal 0 of an  ... if total > 0 else 0
Literal0 == [raises |-> FALSE, num |-> 0, den |-> 1]

\* round(n / d) to the nearest integer, ties to even (d > 0)
RoundHalfEven(n, d) ==
  LET q == n \div d
      r == n % d
  IN IF 2 * r < d THEN q
     ELSE IF 2 * r > d THEN q + 1
     ELSE IF q % 2 = 0 THEN q ELSE q + 1

\* round(x * mult, digits) for x = num/den, in units of 10^-digits (unit = 10^digits)
RoundScaled(x, mult, unit) == RoundHalfEven(x.num * mult * unit, x.den)

\* int(n / d): truncation toward zero (d > 0)
TruncDiv(n, d) == IF n >= 0 THEN n \div d ELSE -((-n) \div d)

\* round(secs / 3600, 2), in hundredths of an hour
Hours2(secs) == RoundHalfEven(secs * 100, 3600)

RECURSIVE SumOver(_, _)
SumOver(f, keys) ==
  IF keys = {} THEN 0
  ELSE LET k == CHOOSE x \in keys : TRUE IN f[k] + SumOver(f, keys \ {k})

\* sum(m.values())
SumValues(m) == SumOver(m, DOMAIN m)

(***************************************************************************)
(* Death loops, lines 785-839                                              *)
(***************************************************************************)
\* tuple(sorted([s["from"], s["to"]]))
PairOf(s) == IF StrLess(s.to, s.from) THEN <<s.to, s.from>> ELSE <<s.from, s.to>>

\* pair_counts as a list of items, in the order in which the pairs are first inserted
\* (lines 790-792): the k-th item is the pair of the k-th switch that opens a new key,
\* its value the number of switches of that pair
pair_counts(sw) ==
  LET pairs == [i \in 1..Len(sw) |-> PairOf(sw[i])]
      opens == {i \in 1..Len(sw) : \A j \in 1..(i - 1) : pairs[j] # pairs[i]}
      place(i) == Cardinality({j \in opens : j <= i})
  IN [k \in 1..Cardinality(opens) |->
        LET i == CHOOSE o \in opens : place(o) = k
        IN [key |-> pairs[i],
            value |-> Cardinality({j \in 1..Len(sw) : pairs[j] = pairs[i]})]]

\* pair_ai_counts[pair] (lines 793-794);  s.get("ai_agent") is truthy for an agent name
pair_ai_count(sw, pair) ==
  Cardinality({i \in 1..Len(sw) : PairOf(sw[i]) = pair /\ sw[i].ai_agent # None})

\* pair_agents[pair][agent] (line 795)
pair_agent_count(sw, pair, agent) ==
  Cardinality({i \in 1..Len(sw) : PairOf(sw[i]) = pair /\ sw[i].ai_agent = agent})

\* max(agents.items(), key=lambda x: x[1])[0]: the agent counted most often for the
\* pair, the one seen first among equals; "unknown" when the pair has none (line 829)
top_agent_of(sw, pair) ==
  LET tagged == {i \in 1..Len(sw) : PairOf(sw[i]) = pair /\ sw[i].ai_agent # None}
      first(a) == CHOOSE i \in tagged :
                    sw[i].ai_agent = a /\ \A j \in tagged : sw[j].ai_agent = a => i <= j
      agents == {sw[i].ai_agent : i \in tagged}
      best == CHOOSE a \in agents :
                \A b \in agents :
                   \/ pair_agent_count(sw, pair, a) > pair_agent_count(sw, pair, b)
                   \/ /\ pair_agent_count(sw, pair, a) = pair_agent_count(sw, pair, b)
                      /\ first(a) <= first(b)
  IN IF tagged = {} THEN "unknown" ELSE best

\* sorted(items, key=count, reverse=True): stable, larger counts first
SortedByCountDesc(items) ==
  LET n == Len(items)
      rank(i) == 1 + Cardinality({j \in 1..n :
                       \/ items[j].value > items[i].value
                       \/ items[j].value = items[i].value /\ j < i})
  IN [r \in 1..n |-> items[CHOOSE i \in 1..n : rank(i) = r]]

\* [ ... for k, v in pair_counts.items() if v >= 20]
LoopCandidates(counts) == SelectSeq(counts, LAMBDA e : e.value >= DEATH_LOOP_MIN)

\* Mutant: the cap is applied before the sort.
death_loops_of_cut_before_sort(sw) ==
  LET found == LoopCandidates(pair_counts(sw))
  IN SortedByCountDesc(SubSeq(found, 1, Min(Len(found), DEATH_LOOP_CAP)))

\* lines 797-802
death_loops_of(sw) ==
  LET sorted == SortedByCountDesc(LoopCandidates(pair_counts(sw)))
  IN SubSeq(sorted, 1, Min(Len(sorted), DEATH_LOOP_CAP))

AI_RATIO_TENTHS == 3

\* line 824: ai_count / total_count if total_count > 0 else 0
loop_ai_ratio(sw, loop) ==
  IF loop.value > 0 THEN TrueDiv(pair_ai_count(sw, loop.key), loop.value) ELSE Literal0

\* Mutant: a fraction of exactly 0.3 passes as well.
ai_ratio_at_least(ai_ratio) == ai_ratio.num * 10 >= AI_RATIO_TENTHS * ai_ratio.den

\* line 826: ai_ratio > 0.3
ai_ratio_exceeds(ai_ratio) == ai_ratio.num * 10 > AI_RATIO_TENTHS * ai_ratio.den

\* a suggestion: the f-string's text and the app or agent name it is filled with
Suggestion(text, app, agent) == [text |-> text, app |-> app, agent |-> agent]

\* Mutant: the AI-assisted check comes before the distracting check.
Annotate_ai_first(sw, loop) ==
  LET pair == loop.key
      app1_cat == categorize_activity(pair[1], <<>>).category
      app2_cat == categorize_activity(pair[2], <<>>).category
      ai_ratio == loop_ai_ratio(sw, loop)
      Loop(verdict, ai_agent, ai_switches, suggestion) ==
        [apps |-> pair, count |-> loop.value, verdict |-> verdict,
         ai_agent |-> ai_agent, ai_switches |-> ai_switches, suggestion |-> suggestion]
  IN IF ai_ratio_exceeds(ai_ratio)
     THEN Loop("ai_assisted", top_agent_of(sw, pair), pair_ai_count(sw, pair),
               Suggestion("AI-assisted development ({}) - productive workflow", <<>>,
                          top_agent_of(sw, pair)))
     ELSE IF app1_cat \in DISTRACTING
     THEN Loop("distracting", None, 0,
               Suggestion("Block {} during focus hours", pair[1], None))
     ELSE IF app2_cat \in DISTRACTING
     THEN Loop("distracting", None, 0,
               Suggestion("Block {} during focus hours", pair[2], None))
     ELSE IF /\ app1_cat \in {"deep_work", "development"}
             /\ app2_cat \in {"deep_work", "development"}
     THEN Loop("productive", None, 0,
               Suggestion("Normal dev workflow - consider split screen", <<>>, None))
     ELSE Loop("mixed", None, 0,
               Suggestion("Consider batching these activities", <<>>, None))

\* lines 808-839: verdict and suggestion of one loop.  The keys ai_agent and
\* ai_switches exist only on an ai_assisted loop; elsewhere they read None and 0.
Annotate(sw, loop) ==
  LET pair == loop.key
      app1_cat == categorize_activity(pair[1], <<>>).category
      app2_cat == categorize_activity(pair[2], <<>>).category
      ai_ratio == loop_ai_ratio(sw, loop)
      Loop(verdict, ai_agent, ai_switches, suggestion) ==
        [apps |-> pair, count |-> loop.value, verdict |-> verdict,
         ai_agent |-> ai_agent, ai_switches |-> ai_switches, suggestion |-> suggestion]
  IN IF app1_cat \in DISTRACTING
     THEN Loop("distracting", None, 0,
               Suggestion("Block {} during focus hours", pair[1], None))
     ELSE IF app2_cat \in DISTRACTING
     THEN Loop("distracting", None, 0,
               Suggestion("Block {} during focus hours", pair[2], None))
     ELSE IF ai_ratio_exceeds(ai_ratio)
     THEN Loop("ai_assisted", top_agent_of(sw, pair), pair_ai_count(sw, pair),
               Suggestion("AI-assisted development ({}) - productive workflow", <<>>,
                          top_agent_of(sw, pair)))
     ELSE IF /\ app1_cat \in {"deep_work", "development"}
             /\ app2_cat \in {"deep_work", "development"}
     THEN Loop("productive", None, 0,
               Suggestion("Normal dev workflow - consider split screen", <<>>, None))
     ELSE Loop("mixed", None, 0,
               Suggestion("Consider batching these activities", <<>>, None))

annotated_death_loops(sw) ==
  LET loops == death_loops_of(sw) IN [i \in 1..Len(loops) |-> Annotate(sw, loops[i])]

(***************************************************************************)
(* Scores, lines 841-870                                                   *)
(***************************************************************************)
ACTIVE_HOUR_SECONDS == 300

\* line 848: weighted_time / total_active_time (weighted_time is in tenths)
raw_productivity == TrueDiv(weighted_time, 10 * total_active_time)

\* lines 850-851: int(((raw + 0.5) / 1.5) * 100), then max(0, min(100, .))
\*   ((n/d + 1/2) / (3/2)) * 100 = (2n + d) * 100 / (3d)
scaled_productivity(raw) == TruncDiv((2 * raw.num + raw.den) * 100, 3 * raw.den)

\* Mutant: the score is not clamped.
clamp_score_missing(s) == s

\* line 851
clamp_score(s) == Max(0, Min(100, s))

\* lines 847-853
productivity_score ==
  IF total_active_time > 0 THEN clamp_score(scaled_productivity(raw_productivity)) ELSE 0

\* line 856: sum(1 for h in hourly_activity.values() if h > 300)
active_hours ==
  Cardinality({h \in DOMAIN hourly_activity : hourly_activity[h] > ACTIVE_HOUR_SECONDS})

total_switches == Len(switches)

\* line 857
human_switches == total_switches - Len(ai_assisted_switches)

\* line 858: human_switches / max(1, active_hours)
switches_per_active_hour == TrueDiv(human_switches, Max(1, active_hours))

\* x < limit for the exact quotient x
Below(x, limit) == x.num < limit * x.den

\* lines 860-867
focus_score ==
  IF Below(switches_per_active_hour, 50) THEN 85
  ELSE IF Below(switches_per_active_hour, 100) THEN 70
  ELSE IF Below(switches_per_active_hour, 200) THEN 55
  ELSE 40

\* Mutant: the two weights are swapped.
combined_score_of_weights_swapped(p, f) == TruncDiv(4 * p + 6 * f, 10)

\* line 870: int(productivity_score * 0.6 + focus_score * 0.4)
combined_score_of(p, f) == TruncDiv(6 * p + 4 * f, 10)

combined_score == combined_score_of(productivity_score, focus_score)

(***************************************************************************)
(* The summary, lines 872-1040                                             *)
(***************************************************************************)
PRODUCTIVE_CATEGORIES == {"deep_work", "ai_tools", "development", "writing", "design"}

\* line 842
total_time == SumValues(app_time)

\* line 844
days_tracked == Cardinality(DOMAIN daily_activity)

\* sum(by_category[bucket].get(cat, 0) for cat in productive_categories)
productive_time_in(by_category, bucket) ==
  SumOver([cat \in PRODUCTIVE_CATEGORIES |-> Get(by_category, <<bucket, cat>>)],
          PRODUCTIVE_CATEGORIES)

\* line 893: round(productive_time / hour_total * 100, 1) if hour_total > 0 else 0
hour_productive_pct(hour) ==
  IF Get(hourly_activity, hour) > 0
  THEN TrueDiv(productive_time_in(hourly_by_category, hour), Get(hourly_activity, hour))
  ELSE Literal0

\* lines 884-895: hours under 300 s are left out (continue)
hourly_productivity ==
  [hour \in {h \in 0..23 : ~(Get(hourly_activity, h) < ACTIVE_HOUR_SECONDS)} |->
     [total_hours |-> Hours2(Get(hourly_activity, hour)),
      productive_hours |-> Hours2(productive_time_in(hourly_by_category, hour)),
      productive_pct |-> RoundScaled(hour_productive_pct(hour), 100, 10),
      switches |-> Get(hourly_switches, hour)]]

\* lines 898-909: sorted(hourly_productivity.items(), key=..., reverse=True)[:5], the
\* hours only.  The dict is filled in the order of range(24) and the sort is stable.
top_hours(key) ==
  LET hours == DOMAIN hourly_productivity
      rank(h) == 1 + Cardinality({g \in hours :
                       \/ key[g] > key[h]
                       \/ key[g] = key[h] /\ g < h})
  IN [r \in 1..Min(Cardinality(hours), 5) |-> CHOOSE h \in hours : rank(h) = r]

\* lines 898-902
peak_hours ==
  top_hours([h \in DOMAIN hourly_productivity |-> hourly_productivity[h].productive_pct])

\* lines 905-909
danger_hours ==
  top_hours([h \in DOMAIN hourly_productivity |-> hourly_productivity[h].switches])

\* line 919: round(productive_time / day_total * 100, 1) if day_total > 0 else 0
day_productive_pct(day) ==
  IF daily_activity[day] > 0
  THEN TrueDiv(productive_time_in(daily_by_category, day), daily_activity[day])
  ELSE Literal0

\* lines 912-920
daily_scores ==
  [day \in DOMAIN daily_activity |->
     [total_hours |-> Hours2(daily_activity[day]),
      productive_hours |-> Hours2(productive_time_in(daily_by_category, day)),
      productive_pct |-> RoundScaled(day_productive_pct(day), 100, 10)]]

\* Mutant: the  if total_time > 0  guard is missing.
share_of_total_unguarded(secs) == TrueDiv(secs, total_time)

\* lines 954, 964: round(secs / total_time * 100, 1) if total_time > 0 else 0
share_of_total(secs) == IF total_time > 0 THEN TrueDiv(secs, total_time) ELSE Literal0

\* line 955: CATEGORY_RULES.get(cat, {}).get("weight", 0)
rule_weight(cat) ==
  IF \E i \in 1..Len(CATEGORY_RULES) : CATEGORY_RULES[i].name = cat
  THEN CATEGORY_RULES[CHOOSE i \in 1..Len(CATEGORY_RULES) : CATEGORY_RULES[i].name = cat].weight
  ELSE 0

\* lines 950-958, keyed by category (the list is in descending order of time)
category_breakdown ==
  [cat \in DOMAIN category_time |->
     [hours |-> Hours2(category_time[cat]),
      percentage |-> RoundScaled(share_of_total(category_time[cat]), 100, 10),
      weight |-> rule_weight(cat)]]

\* lines 960-968, keyed by app (the list is the 20 apps with the most time)
top_apps ==
  [app \in DOMAIN app_time |->
     [hours |-> Hours2(app_time[app]),
      percentage |-> RoundScaled(share_of_total(app_time[app]), 100, 10),
      category |-> categorize_activity(app, <<>>).category]]

\* sum(d["time"] for d in browser_sites.values() if <weight in lo..hi>), weights in tenths
site_time(lo, hi) ==
  SumOver([s \in DOMAIN browser_sites |->
             IF lo <= browser_sites[s].weight /\ browser_sites[s].weight <= hi
             THEN browser_sites[s].time ELSE 0],
          DOMAIN browser_sites)

\* line 998: sum(... weight >= 0.5) / max(1, browser_total_time) * 100
browser_productive_pct == TrueDiv(site_time(5, 1000), Max(1, browser_total_time))

\* line 999: sum(... weight < 0) / max(1, browser_total_time) * 100
browser_distracting_pct == TrueDiv(site_time(-1000, -1), Max(1, browser_total_time))

\* line 946: total_time / 3600 / max(1, days_tracked)
average_active_per_day == TrueDiv(total_time, 3600 * Max(1, days_tracked))

\* line 1018: human_switches / max(1, days_tracked)
average_switches_per_day == TrueDiv(human_switches, Max(1, days_tracked))

\* Every division the post-loop code evaluates in this state.
Divisions ==
  (LET loops == death_loops_of(switches)
   IN {loop_ai_ratio(switches, l) :
         l \in {x \in {loops[i] : i \in 1..Len(loops)} :
                  /\ categorize_activity(x.key[1], <<>>).category \notin DISTRACTING
                  /\ categorize_activity(x.key[2], <<>>).category \notin DISTRACTING}})
  \cup (IF total_active_time > 0 THEN {raw_productivity} ELSE {})
  \cup {switches_per_active_hour}
  \cup {hour_productive_pct(h) : h \in DOMAIN hourly_productivity}
  \cup {day_productive_pct(d) : d \in DOMAIN daily_activity}
  \cup {share_of_total(category_time[c]) : c \in DOMAIN category_time}
  \cup {share_of_total(app_time[a]) : a \in DOMAIN app_time}
  \cup {browser_productive_pct, browser_distracting_pct,
        average_active_per_day, average_switches_per_day}

ZeroDivisionError == \E d \in Divisions : d.raises

\* line 879: sorted(browser_titles.items(), key=lambda x: x[1], reverse=True)[:30]
sorted_browser ==
  LET sorted == SortedByCountDesc(browser_titles)
  IN SubSeq(sorted, 1, Min(Len(sorted), 30))

\* lines 1114-1118: the first of the ten top browser activities that is entertainment
\* or social media with more than an hour, 0 when there is none
distracting_browser_activity(browser_activities) ==
  LET hits == {i \in 1..Min(Len(browser_activities), 10) :
                 /\ categorize_activity(<<"b", "r", "o", "w", "s", "e", "r">>,
                                        browser_activities[i].key).category
                      \in {"entertainment", "social_media"}
                 /\ browser_activities[i].value > 3600}
  IN IF hits = {} THEN 0 ELSE CHOOSE i \in hits : \A j \in hits : i <= j

\* Mutant: the first loop that is distracting or mixed is taken for the worst loop.
one_change_of_first_problem(death_loops, browser_activities) ==
  LET problems == {i \in DOMAIN death_loops :
                     death_loops[i].verdict \in {"distracting", "mixed"}}
      worst == IF problems = {} THEN 0
               ELSE CHOOSE i \in problems : \A j \in problems : i <= j
  IN IF worst # 0
     THEN death_loops[worst].suggestion
     ELSE Suggestion("Protect your peak productive hours by blocking notifications",
                     <<>>, None)

\* lines 1099-1123: insights["one_change"].  The text of the browser suggestion is
\* filled with title[:30] and round(secs / 3600, 1), kept in tenths of an hour.
one_change_of(death_loops, browser_activities) ==
  LET distracting == {i \in DOMAIN death_loops : death_loops[i].verdict = "distracting"}
      hit == distracting_browser_activity(browser_activities)
  IN IF death_loops # <<>>
     THEN IF distracting # {}
          THEN death_loops[CHOOSE i \in distracting : \A j \in distracting : i <= j]
                 .suggestion
          ELSE IF hit # 0
          THEN [text |-> "Block '{}' during work hours (spent {}h)",
                app |-> Prefix(browser_activities[hit].key, 30),
                agent |-> None,
                hours |-> RoundHalfEven(browser_activities[hit].value * 10, 3600)]
          ELSE Suggestion("Batch check communication apps 3x daily instead of continuously",
                          <<>>, None)
     ELSE Suggestion("Protect your peak productive hours by blocking notifications",
                     <<>>, None)

Summary ==
  LET death_loops == annotated_death_loops(switches) IN
  [status |-> "ok",
   period |-> [days_tracked |-> days_tracked, total_events |-> total_events],
   scores |-> [combined_score |-> combined_score,
               productivity_score |-> productivity_score,
               focus_score |-> focus_score],
   time_totals |-> [tracked_hours |-> Hours2(total_time + idle_time),
                    active_hours |-> Hours2(total_time),
                    idle_hours |-> Hours2(idle_time),
                    average_active_per_day |-> RoundScaled(average_active_per_day, 1, 100),
                    timezone |-> local_tz],
   category_breakdown |-> category_breakdown,
   top_apps |-> top_apps,
   browser_productivity |->
     [total_hours |-> Hours2(browser_total_time),
      productive_hours |-> Hours2(site_time(5, 1000)),
      neutral_hours |-> Hours2(site_time(0, 4)),
      distracting_hours |-> Hours2(site_time(-1000, -1)),
      productive_pct |-> RoundScaled(browser_productive_pct, 100, 10),
      distracting_pct |-> RoundScaled(browser_distracting_pct, 100, 10)],
   hourly_analysis |-> [peak_productive_hours |-> peak_hours,
                        danger_zones |-> danger_hours,
                        full_breakdown |-> hourly_productivity],
   daily_trend |-> daily_scores,
   context_switching |->
     [total_switches |-> total_switches,
      human_switches |-> human_switches,
      ai_assisted_switches |-> Len(ai_assisted_switches),
      average_per_day |-> RoundScaled(average_switches_per_day, 1, 10),
      switches_per_hour |-> RoundScaled(switches_per_active_hour, 1, 10)],
   ai_assisted_development |->
     [total_hours |-> Hours2(SumValues(ai_agent_time)),
      agents_detected |-> [a \in DOMAIN ai_agent_time |-> Hours2(ai_agent_time[a])],
      switches_during_ai |-> Len(ai_assisted_switches)],
   death_loops |-> death_loops,
   insights |-> [one_change |-> one_change_of(death_loops, sorted_browser)]]

(***************************************************************************)
(* The loop is over: lines 785-1040, and the return                        *)
(***************************************************************************)
Finish ==
  /\ pc = "loop"
  /\ next_row > Len(file)
  /\ IF ZeroDivisionError
     THEN /\ pc' = "raised"
          /\ UNCHANGED <<summary, returned>>
     ELSE /\ pc' = "returned"
          /\ summary' = Summary
          /\ returned' = Append(returned, summary')
  /\ UNCHANGED <<CATEGORY_RULES, file, local_tz, locals, catVars, guardVars>>

(***************************************************************************)
(* The process: every file of Files, every timezone                        *)
(***************************************************************************)
\* Five minutes to the second in an hour of its own, after n rows of two apps that take
\* turns inside one hour: n switches, one hour well over 300 s and one of exactly 300 s.
r_five_minutes ==
  Row(TRUE, 40, "number", 300, <<"N", "o", "t", "e", "s">>, <<>>)

\* A terminal running an agent and Slack take turns for a rows, then a terminal with a
\* plain shell and Slack for b rows: one pair, part of whose switches are tagged; 6 of 20
\* with a = 7, b = 15 and 7 of 20 with a = 8, b = 13.
RatioFiles ==
  {Alternating(r_terminal_claude, r_slack, a) \o Alternating(r_terminal_zsh, r_slack, b) :
     a \in 6..8, b \in 13..15}

BoundaryFiles == {Alternating(r_cursor, r_finder, n) \o <<r_five_minutes>> : n \in 49..50}

Files == ShortFiles \cup LoopFiles \cup TourFiles \cup BoundaryFiles \cup RatioFiles

Init ==
  /\ CATEGORY_RULES = DEFAULT_CATEGORY_RULES
  /\ pc = "main"
  /\ file \in Files
  /\ local_tz \in Timezones
  /\ InitLocals
  /\ summary = NoSummary
  /\ returned = <<>>
  /\ InitCat
  /\ NoGuard

Next == LoadConfig \/ Call \/ ReadRow \/ Finish

Spec == Init /\ [][Next]_vars

(***************************************************************************)
(* categorize_activity on its own: one call, for every rule table of       *)
(* SmallRuleTables with every pair of SmallStrings, and for the default    *)
(* table with the apps and titles of DefaultApps, DefaultTitles            *)
(***************************************************************************)
SmallAlphabet == {"a", "A", "b"}

\* Longest app and title of the small calls.
MaxStrLen == 2

SmallStrings == SeqsUpTo(SmallAlphabet, MaxStrLen)

\* Rules in the largest small rule table.
MaxRules == 2

RuleNames == <<"alpha", "beta", "gamma", "delta">>
RuleWeights == <<10, -3, 5, 0>>

SmallRuleBodies ==
  {[apps |-> <<<<"a">>>>, titles |-> <<>>],
   [apps |-> <<>>, titles |-> <<<<"A", "b">>>>],
   [apps |-> <<<<"B">>>>, titles |-> <<<<"a">>>>],
   [apps |-> <<<<"b", "a">>, <<"A", "A">>>>, titles |-> <<<<"b">>>>]}

RuleTablesOfLen(n) ==
  {[i \in 1..n |-> [name |-> RuleNames[i], weight |-> RuleWeights[i],
                    apps |-> b[i].apps, titles |-> b[i].titles]] :
     b \in [1..n -> SmallRuleBodies]}

SmallRuleTables == UNION {RuleTablesOfLen(n) : n \in 0..Min(MaxRules, Len(RuleNames))}

DefaultApps ==
  {<<>>, Terminal,
   <<"C", "u", "r", "s", "o", "r">>, <<"S", "a", "f", "a", "r", "i">>,
   <<"N", "o", "t", "i", "o", "n">>, <<"c", "l", "a", "u", "d", "e">>,
   <<"P", "o", "s", "t", "m", "a", "n">>, <<"S", "l", "a", "c", "k">>,
   <<"G", "o", "o", "g", "l", "e", " ", "C", "h", "r", "o", "m", "e">>}

DefaultTitles ==
  {<<>>,
   <<"G", "o", "o", "g", "l", "e", " ", "D", "o", "c", "s", " ", "-", " ",
     "M", "y", " ", "P", "r", "o", "p", "o", "s", "a", "l">>,
   <<"m", "y", " ", "g", "o", "o", "g", "l", "e", " ", "d", "o", "c", "s">>,
   <<"G", "o", "o", "g", "l", "e", " ", "D", "o", "c", "s", " ", "-", " ",
     "g", "i", "t", " ", "l", "o", "g">>,
   <<"C", "l", "a", "u", "d", "e", " ", "-", " ",
     "G", "o", "o", "g", "l", "e", " ", "D", "o", "c", "s">>,
   <<"i", "n", "b", "o", "x">>}

CategorizeCalls ==
  (SmallRuleTables \X SmallStrings \X SmallStrings)
    \cup ({DEFAULT_CATEGORY_RULES} \X DefaultApps \X DefaultTitles)

NotCalled == [category |-> "not called", weight |-> 0]

InitCategorize ==
  /\ \E call \in CategorizeCalls :
       /\ CATEGORY_RULES = call[1]
       /\ cat_app = call[2]
       /\ cat_title = call[3]
  /\ cat_ret = NotCalled
  /\ pc = "categorize"
  /\ file = <<>>
  /\ local_tz = 0
  /\ InitLocals
  /\ summary = NoSummary
  /\ returned = <<>>
  /\ NoGuard

CallCategorize ==
  /\ pc = "categorize"
  /\ cat_ret' = categorize_activity(cat_app, cat_title)
  /\ pc' = "categorized"
  /\ UNCHANGED <<CATEGORY_RULES, file, local_tz, locals, summary, returned,
                 cat_app, cat_title, guardVars>>

NextCategorize == CallCategorize

SpecCategorize == InitCategorize /\ [][NextCategorize]_vars

(***************************************************************************)
(* focus_guard.py: starting Focus Guard.  run_guard (lines 302-410) and    *)
(* run_auto_guard (lines 413-530) begin alike: is_running, write_pid, the  *)
(* loop, and the unlink of PID_FILE on the way out.  Each process is a     *)
(* separate run of the script; they share PID_FILE only.                   *)
(***************************************************************************)
LoopUnchanged == UNCHANGED <<clock, processes, now, recently_warned, autoVars, runVars>>

\* os.kill(pid, 0) succeeds (line 243): a process with that pid exists
ProcessExists(p) == p \in Guards /\ at[p] \in {"is_running", "write_pid", "loop"}

\* run_guard / run_auto_guard is entered and is_running reads the PID file (line 240)
read_pid(g) ==
  /\ at[g] = "not started"
  /\ pid' = [pid EXCEPT ![g] = pid_file]
  /\ at' = [at EXCEPT ![g] = "is_running"]
  /\ UNCHANGED pid_file
  /\ LoopUnchanged

\* the rest of is_running (lines 241-248) and the test made of it (lines 305-308, 416-419)
is_running(g) ==
  /\ at[g] = "is_running"
  /\ IF pid[g] # NoPid /\ ProcessExists(pid[g])
     THEN /\ at' = [at EXCEPT ![g] = "already running"]
          /\ UNCHANGED pid_file
     ELSE /\ at' = [at EXCEPT ![g] = "write_pid"]
          /\ pid_file' = IF pid[g] # NoPid THEN NoPid ELSE pid_file
  /\ UNCHANGED pid
  /\ LoopUnchanged

\* write_pid (lines 221-224), called at lines 329 and 434; the loop follows
write_pid(g) ==
  /\ at[g] = "write_pid"
  /\ pid_file' = g
  /\ at' = [at EXCEPT ![g] = "loop"]
  /\ UNCHANGED pid
  /\ LoopUnchanged

\* the loop is left from wherever it is, by SIGINT, SIGTERM or an exception (lines
\* 332-337, 409-410, 437-442, 529-530); PID_FILE is unlinked whatever it holds
leave_loop(g) ==
  /\ at[g] \in {"loop", "for", "grace"}
  /\ pid_file' = NoPid
  /\ at' = [at EXCEPT ![g] = "exited"]
  /\ UNCHANGED pid
  /\ LoopUnchanged

\* nothing but Focus Guard processes is running
InitStart ==
  /\ CATEGORY_RULES = DEFAULT_CATEGORY_RULES
  /\ pc = "focus_guard"
  /\ file = <<>>
  /\ local_tz = 0
  /\ InitLocals
  /\ summary = NoSummary
  /\ returned = <<>>
  /\ InitCat
  /\ NoGuard

AnalysisUnchanged ==
  UNCHANGED <<CATEGORY_RULES, pc, file, local_tz, locals, summary, returned, catVars>>

NextStart ==
  \/ \E g \in Guards : read_pid(g) /\ AnalysisUnchanged
  \/ \E g \in Guards : is_running(g) /\ AnalysisUnchanged
  \/ \E g \in Guards : write_pid(g) /\ AnalysisUnchanged
  \/ \E g \in Guards : leave_loop(g) /\ AnalysisUnchanged

SpecStart == InitStart /\ [][NextStart]_vars

(***************************************************************************)
(* focus_guard.py: run_auto_guard, the loop of lines 458-527               *)
(***************************************************************************)
\* auto_config.get("cooldown_minutes", 3), line 427
cooldown_minutes == 3

\* "Only warn if we haven't warned in the last 30 seconds", lines 374 and 515
REWARN_SECONDS == 30

\* Iterations of a guard loop.
MaxPolls == 10

\* the time of the last iteration
MaxTime == StartTime + MaxPolls * settings.check_interval

\* what get_frontmost_app returns (lines 144-156): an app's name, or None when
\* osascript fails
FrontmostApps == {"Cursor", "Terminal", "Safari", None}

\* is_deep_work, line 465
IsDeepWork(app) == IF app # None THEN app \in deep_work_apps ELSE FALSE

\* the cooldown is over one second too late
cooldown_over_later(seconds) == seconds > cooldown_minutes * 60

\* minutes_since_deep_work >= cooldown_minutes, lines 490-493
cooldown_over(seconds) == seconds >= cooldown_minutes * 60

\* deep_work_start is left as it is when focus mode is deactivated
deep_work_start_kept(deactivated, started) == started

\* line 495: deep_work_start = None on deactivation
deep_work_start_after(deactivated, started) == IF deactivated THEN NoTime ELSE started

\* the user starts or closes an application
user_toggles(app) ==
  /\ processes' = IF app \in processes THEN processes \ {app} ELSE processes \cup {app}
  /\ UNCHANGED <<startVars, clock, now, recently_warned, autoVars, runVars>>

\* a warning is due again as soon as 30 seconds have passed
due_a_warning_at_30(t, last_warned) == t - last_warned >= REWARN_SECONDS

\* now - last_warned > 30, lines 374 and 515
due_a_warning(t, last_warned) == t - last_warned > REWARN_SECONDS

\* lines 506-525: the warnings of one iteration while focus mode is active
warned_at(t, running) ==
  [app \in blocked_apps |->
     IF app \in running /\ due_a_warning(t, recently_warned[app])
     THEN t ELSE recently_warned[app]]

\* one iteration of  while True  (lines 459-527), get_frontmost_app returning app.
\* Deep-work apps are frontmost only as long as cooldown_minutes of iterations remain.
auto_iteration(g, app) ==
  /\ at[g] = "loop"
  /\ clock <= MaxTime
  /\ IsDeepWork(app) => clock + cooldown_minutes * 60 <= MaxTime
  /\ frontmost' = app
  /\ now' = clock
  /\ LET is_deep_work == IsDeepWork(app)
         started == IF is_deep_work /\ deep_work_start = NoTime
                    THEN clock ELSE deep_work_start
         activated == /\ is_deep_work
                      /\ ~focus_active
                      /\ clock - started >= settings.trigger_minutes * 60
         deactivated == /\ ~is_deep_work
                        /\ last_deep_work # NoTime
                        /\ focus_active
                        /\ cooldown_over(clock - last_deep_work)
         seen == deep_work_seconds + (IF IsDeepWork(frontmost) THEN clock - now ELSE 0)
     IN  /\ last_deep_work' = IF is_deep_work THEN clock ELSE last_deep_work
         /\ deep_work_start' = deep_work_start_after(deactivated, started)
         /\ focus_active' = ((focus_active \/ activated) /\ ~deactivated)
         /\ recently_warned' = IF focus_active'
                               THEN warned_at(clock, processes) ELSE recently_warned
         /\ deep_work_seconds' = IF deactivated THEN 0 ELSE seen
  /\ clock' = clock + settings.check_interval
  /\ UNCHANGED <<startVars, processes, runVars>>

\* run_auto_guard has written the PID file and enters its loop, with the settings of
\* one of the config files
InitAutoWith(config_files) ==
  /\ CATEGORY_RULES = DEFAULT_CATEGORY_RULES
  /\ pc = "focus_guard"
  /\ file = <<>>
  /\ local_tz = 0
  /\ InitLocals
  /\ summary = NoSummary
  /\ returned = <<>>
  /\ InitCat
  /\ pid_file = 1
  /\ at = [g \in Guards |-> IF g = 1 THEN "loop" ELSE "not started"]
  /\ pid = [g \in Guards |-> NoPid]
  /\ processes \in SUBSET blocked_apps
  /\ args = NoFlags
  /\ warn_only = WarnOnly(NoFlags)
  /\ settings \in config_files
  /\ duration_hours = NoDuration
  /\ end_time = NoTime
  /\ LoopLocals

InitAuto == InitAutoWith({ConfiguredSettings})

NextAuto ==
  \/ \E app \in FrontmostApps : auto_iteration(1, app) /\ AnalysisUnchanged
  \/ \E app \in blocked_apps : user_toggles(app) /\ AnalysisUnchanged
  \/ leave_loop(1) /\ AnalysisUnchanged

SpecAuto == InitAuto /\ [][NextAuto]_vars

\* the same with focus mode triggered after one minute as well: within the
\* iterations of the model it is activated, deactivated and activated again
InitAutoTriggers ==
  InitAutoWith({[ConfiguredSettings EXCEPT !.trigger_minutes = t] : t \in {1, trigger_minutes}})

SpecAutoTriggers == InitAutoTriggers /\ [][NextAuto]_vars

\* while True: the loop goes on for as long as the process is alive
SpecAutoLive ==
  SpecAuto /\ WF_vars(\E app \in FrontmostApps : auto_iteration(1, app) /\ AnalysisUnchanged)

(***************************************************************************)
(* focus_guard.py: run_guard, the loop of lines 351-407, with the default  *)
(* schedule (not enabled: is_within_schedule returns True, line 201)       *)
(***************************************************************************)
\* Check intervals after which the loop of run_guard begins no further iteration.
MaxChecks == 3

\* what main is given: --warn-only, --hard-block, both, or neither
Args == [warn_only : BOOLEAN, hard_block : BOOLEAN]

\* the test of line 401 goes wrong: the app is taken to be running
still_running_unchecked(app, running) == TRUE

\* app in get_running_apps(), line 401
still_running(app, running) == app \in running

\* what --duration gives run_guard, in seconds: nothing, 0, or a time that ends
\* within the iterations of the model
Durations == {NoDuration, 0, CheckInterval + 30}

\* end_time and datetime.now() >= end_time, line 354
session_over(t) == end_time # NoTime /\ t >= end_time

\* lines 352-365: the top of the loop.  The session is over and the loop is left by
\* break, through  finally  (lines 409-410); or get_running_apps is called, once per
\* iteration
guard_iteration(g) ==
  /\ at[g] = "loop"
  /\ IF session_over(clock)
     THEN /\ pid_file' = NoPid
          /\ at' = [at EXCEPT ![g] = "exited"]
          /\ UNCHANGED <<running_apps, todo>>
     ELSE /\ clock <= StartTime + MaxChecks * settings.check_interval
          /\ running_apps' = processes
          /\ todo' = blocked_apps
          /\ at' = [at EXCEPT ![g] = "for"]
          /\ UNCHANGED pid_file
  /\ UNCHANGED <<pid, clock, processes, now, recently_warned, autoVars,
                 args, warn_only, blocked_app, last_quit, settings, duration_hours, end_time>>

\* lines 368-394 and 405: the for loop reaches app, of a set in no fixed order; in
\* hard-block mode the grace period begins for an app that is due a warning
guard_for(g, app) ==
  /\ at[g] = "for"
  /\ app \in todo
  /\ todo' = todo \ {app}
  /\ IF app \in running_apps
     THEN /\ now' = clock
          /\ IF due_a_warning(clock, recently_warned[app])
             THEN IF warn_only
                  THEN /\ recently_warned' = [recently_warned EXCEPT ![app] = clock]
                       /\ UNCHANGED <<at, blocked_app>>
                  ELSE /\ at' = [at EXCEPT ![g] = "grace"]
                       /\ blocked_app' = app
                       /\ UNCHANGED recently_warned
             ELSE UNCHANGED <<at, blocked_app, recently_warned>>
     ELSE UNCHANGED <<at, blocked_app, recently_warned, now>>
  /\ UNCHANGED <<pid_file, pid, clock, processes, autoVars,
                 args, warn_only, running_apps, last_quit, settings, duration_hours, end_time>>

\* lines 396-405: time.sleep(grace_period), then the app is quit if get_running_apps
\* still has it; the app closes on  tell application to quit  or does not
guard_after_grace(g, closes) ==
  /\ at[g] = "grace"
  /\ clock' = IF settings.grace_period > 0 THEN clock + settings.grace_period ELSE clock
  /\ IF still_running(blocked_app, processes)
     THEN /\ last_quit' = [app |-> blocked_app, warned |-> now, time |-> clock']
          /\ processes' = IF closes THEN processes \ {blocked_app} ELSE processes
     ELSE /\ closes
          /\ UNCHANGED <<last_quit, processes>>
  /\ recently_warned' = [recently_warned EXCEPT ![blocked_app] = now]
  /\ blocked_app' = None
  /\ at' = [at EXCEPT ![g] = "for"]
  /\ UNCHANGED <<pid_file, pid, now, autoVars, args, warn_only, running_apps, todo,
                 settings, duration_hours, end_time>>

\* line 407: the for loop is over, time.sleep(check_interval)
guard_sleep(g) ==
  /\ at[g] = "for"
  /\ todo = {}
  /\ clock' = clock + settings.check_interval
  /\ at' = [at EXCEPT ![g] = "loop"]
  /\ UNCHANGED <<pid_file, pid, processes, now, recently_warned, autoVars, runVars>>

\* run_guard has written the PID file and enters its loop
InitGuard ==
  /\ CATEGORY_RULES = DEFAULT_CATEGORY_RULES
  /\ pc = "focus_guard"
  /\ file = <<>>
  /\ local_tz = 0
  /\ InitLocals
  /\ summary = NoSummary
  /\ returned = <<>>
  /\ InitCat
  /\ pid_file = 1
  /\ at = [g \in Guards |-> IF g = 1 THEN "loop" ELSE "not started"]
  /\ pid = [g \in Guards |-> NoPid]
  /\ processes \in SUBSET blocked_apps
  /\ args \in Args
  /\ warn_only = WarnOnly(args)
  /\ settings = ConfiguredSettings
  /\ duration_hours \in Durations
  /\ end_time = EndTimeOf(duration_hours)
  /\ LoopLocals

NextGuard ==
  \/ guard_iteration(1) /\ AnalysisUnchanged
  \/ \E app \in blocked_apps : guard_for(1, app) /\ AnalysisUnchanged
  \/ \E closes \in BOOLEAN : guard_after_grace(1, closes) /\ AnalysisUnchanged
  \/ guard_sleep(1) /\ AnalysisUnchanged
  \/ \E app \in blocked_apps : user_toggles(app) /\ AnalysisUnchanged
  \/ leave_loop(1) /\ AnalysisUnchanged

SpecGuard == InitGuard /\ [][NextGuard]_vars

(***************************************************************************)
(* detect_ai_agent on its own: one call for every title made of at most    *)
(* MaxWords of the words the function looks for, in either case, with      *)
(* other text between them                                                 *)
(***************************************************************************)
AgentWords ==
  {<<"U+2733">>, <<" ">>, <<"x">>,
   <<"c", "l", "a", "u", "d", "e">>, <<"C", "l", "a", "u", "d", "e">>,
   <<"c", "o", "d", "e">>, <<"C", "O", "D", "E">>, <<"c", "o", "d", "e", "x">>,
   <<"A", "i", "d", "e", "r">>,
   <<"g", "h", " ", "c", "o", "p", "i", "l", "o", "t">>,
   <<"G", "i", "t", "H", "u", "b", " ", "C", "o", "p", "i", "l", "o", "t">>}

\* Words in the longest title of the calls.
MaxWords == 3

RECURSIVE JoinWords(_)
JoinWords(words) == IF words = <<>> THEN <<>> ELSE Head(words) \o JoinWords(Tail(words))

AgentTitles == {JoinWords(words) : words \in SeqsUpTo(AgentWords, MaxWords)}

InitDetect ==
  /\ cat_title \in AgentTitles
  /\ cat_app = Terminal
  /\ cat_ret = NotCalled
  /\ pc = "detect"
  /\ CATEGORY_RULES = DEFAULT_CATEGORY_RULES
  /\ file = <<>>
  /\ local_tz = 0
  /\ InitLocals
  /\ summary = NoSummary
  /\ returned = <<>>
  /\ NoGuard

CallDetect ==
  /\ pc = "detect"
  /\ cat_ret' = detect_ai_agent(cat_title)
  /\ pc' = "detected"
  /\ UNCHANGED <<CATEGORY_RULES, file, local_tz, locals, summary, returned,
                 cat_app, cat_title, guardVars>>

NextDetect == CallDetect

SpecDetect == InitDetect /\ [][NextDetect]_vars

(***************************************************************************)
(* extract_site_from_title on its own: one call for every title made of    *)
(* at most MaxParts parts: text, spaces, the four separators, a run of 20  *)
(* letters (two of them reach SITE_NAME_MAX) and one known-site keyword    *)
(***************************************************************************)
SiteParts ==
  {<<"q">>, <<"Q", "z">>, <<" ">>,
   <<" ", "-", " ">>, <<" ", "|", " ">>, <<" ", "U+2013", " ">>, <<" ", "U+2014", " ">>,
   [i \in 1..20 |-> "z"],
   <<"H", "u", "l", "u">>}

\* Parts in the longest title of the calls.
MaxParts == 3

SiteTitles == {JoinWords(parts) : parts \in SeqsUpTo(SiteParts, MaxParts)}

InitSite ==
  /\ cat_title \in SiteTitles
  /\ cat_app = <<"S", "a", "f", "a", "r", "i">>
  /\ cat_ret = NotCalled
  /\ pc = "extract_site"
  /\ CATEGORY_RULES = DEFAULT_CATEGORY_RULES
  /\ file = <<>>
  /\ local_tz = 0
  /\ InitLocals
  /\ summary = NoSummary
  /\ returned = <<>>
  /\ NoGuard

CallSite ==
  /\ pc = "extract_site"
  /\ cat_ret' = extract_site_from_title(cat_title)
  /\ pc' = "extracted"
  /\ UNCHANGED <<CATEGORY_RULES, file, local_tz, locals, summary, returned,
                 cat_app, cat_title, guardVars>>

NextSite == CallSite

SpecSite == InitSite /\ [][NextSite]_vars

(***************************************************************************)
(* focus_guard.py: both loops under other settings of the config file:     *)
(* check intervals below, at and above the 30 seconds of lines 374 and     *)
(* 515, grace periods of none, the default and more than 30 seconds, and   *)
(* focus mode triggered by the first deep-work poll                        *)
(***************************************************************************)
OtherSettings ==
  [check_interval : {20, 30, 31}, grace_period : {0, grace_period, 40}, trigger_minutes : {0}]

\* run_auto_guard or run_guard has written the PID file and enters its loop
InitOtherSettings ==
  /\ CATEGORY_RULES = DEFAULT_CATEGORY_RULES
  /\ file = <<>>
  /\ local_tz = 0
  /\ InitLocals
  /\ summary = NoSummary
  /\ returned = <<>>
  /\ InitCat
  /\ pid_file = 1
  /\ at = [g \in Guards |-> IF g = 1 THEN "loop" ELSE "not started"]
  /\ pid = [g \in Guards |-> NoPid]
  /\ processes \in SUBSET blocked_apps
  /\ settings \in OtherSettings
  /\ duration_hours = NoDuration
  /\ end_time = NoTime
  /\ LoopLocals
  /\ \/ /\ pc = "run_auto_guard"
        /\ args = NoFlags
     \/ /\ pc = "run_guard"
        /\ args \in Args
  /\ warn_only = WarnOnly(args)
  \* only hard-block mode reads the grace period
  /\ warn_only => settings.grace_period = grace_period

NextOtherSettings ==
  \/ pc = "run_auto_guard" /\ NextAuto
  \/ pc = "run_guard" /\ NextGuard

SpecOtherSettings == InitOtherSettings /\ [][NextOtherSettings]_vars

\* while True: the loop of run_guard goes on for as long as the process is alive
SpecGuardLive ==
  SpecGuard /\ WF_vars(\/ guard_iteration(1) /\ AnalysisUnchanged
                       \/ \E app \in blocked_apps : guard_for(1, app) /\ AnalysisUnchanged
                       \/ \E closes \in BOOLEAN : guard_after_grace(1, closes) /\ AnalysisUnchanged
                       \/ guard_sleep(1) /\ AnalysisUnchanged)

(***************************************************************************)
(* Claims                                                                  *)
(***************************************************************************)
\* p occurs in s when case is ignored
CaseInsensitiveIn(p, s) ==
  \E o \in 0..(Len(s) - Len(p)) :
     \A j \in 1..Len(p) : LowerChar(s[o + j]) = LowerChar(p[j])

\* the rule has an app pattern in app or a title pattern in title
RuleMatches(rule, app, title) ==
  \/ \E k \in DOMAIN rule.apps : CaseInsensitiveIn(rule.apps[k], app)
  \/ \E k \in DOMAIN rule.titles : CaseInsensitiveIn(rule.titles[k], title)

MatchingRules ==
  {i \in DOMAIN CATEGORY_RULES : RuleMatches(CATEGORY_RULES[i], cat_app, cat_title)}

FirstMatchingRule == CHOOSE i \in MatchingRules : \A j \in MatchingRules : i <= j

\* C1: for every (app, title) and every ordered rule set, categorize returns the category
\* and weight of the first rule, in rule-set order, that has an app pattern occurring
\* case-insensitively in app or a title pattern occurring case-insensitively in title,
\* and ("uncategorized", 0.0) when no rule matches.
C1_FirstMatchingRuleWins ==
  pc = "categorized" =>
    IF MatchingRules = {}
    THEN cat_ret = [category |-> "uncategorized", weight |-> 0]
    ELSE cat_ret = [category |-> CATEGORY_RULES[FirstMatchingRule].name,
                    weight |-> CATEGORY_RULES[FirstMatchingRule].weight]

\* Two rules match, the first of them by a title pattern only and through a difference
\* of case, and the call returned the first one.
C1_Witness ==
  /\ pc = "categorized"
  /\ Cardinality(MatchingRules) >= 2
  /\ ~AppPatternHit(CATEGORY_RULES[FirstMatchingRule], lower(cat_app))
  /\ ~(\E k \in DOMAIN CATEGORY_RULES[FirstMatchingRule].titles :
         Contains(CATEGORY_RULES[FirstMatchingRule].titles[k], cat_title))
  /\ cat_ret.category = CATEGORY_RULES[FirstMatchingRule].name

GoogleDocs == <<"G", "o", "o", "g", "l", "e", " ", "D", "o", "c", "s">>

WritingRule ==
  CHOOSE i \in DOMAIN DEFAULT_CATEGORY_RULES : DEFAULT_CATEGORY_RULES[i].name = "writing"

\* C8 as claimed: with the default rule set a title containing "Google Docs" is
\* categorized ("writing", 0.9) for every value of app.
C8_WritingForEveryApp ==
  (/\ pc = "categorized"
   /\ CATEGORY_RULES = DEFAULT_CATEGORY_RULES
   /\ Contains(GoogleDocs, cat_title))
  => cat_ret = [category |-> "writing", weight |-> 9]

\* C8, amended: with the default rule set a title containing "Google Docs" is categorized
\* ("writing", 0.9) for every app, provided no rule ahead of writing (deep_work, ai_tools,
\* development) matches the app or the title; when one does, that rule's category is
\* returned.
C8_WritingUnlessEarlierRule ==
  (/\ pc = "categorized"
   /\ CATEGORY_RULES = DEFAULT_CATEGORY_RULES
   /\ Contains(GoogleDocs, cat_title))
  => IF \E i \in 1..(WritingRule - 1) :
          RuleMatches(DEFAULT_CATEGORY_RULES[i], cat_app, cat_title)
     THEN cat_ret.category \in
            {DEFAULT_CATEGORY_RULES[i].name : i \in 1..(WritingRule - 1)}
     ELSE cat_ret = [category |-> "writing", weight |-> 9]

\* "Google Docs - My Proposal" in a browser no rule names is writing.
C8_Witness ==
  /\ pc = "categorized"
  /\ CATEGORY_RULES = DEFAULT_CATEGORY_RULES
  /\ cat_app = <<"S", "a", "f", "a", "r", "i">>
  /\ Contains(GoogleDocs, cat_title)
  /\ cat_ret = [category |-> "writing", weight |-> 9]

\* a returned summary's death loops, as a set
LoopsOf(s) == {s.death_loops[i] : i \in DOMAIN s.death_loops}

\* categorize with an empty title, under the rule table in force
BaselineCategory(app) == categorize_activity(app, <<>>).category

\* switches between a and b, in either direction
SwitchesBetween(a, b) ==
  {i \in DOMAIN switches : {switches[i].from, switches[i].to} = {a, b}}

\* those of them that carry an ai_agent tag
TaggedBetween(a, b) == {i \in SwitchesBetween(a, b) : switches[i].ai_agent # None}

\* C2: a death loop whose pair contains an app with baseline category
\* communication_personal, social_media or entertainment has verdict distracting, never
\* ai_assisted or productive, whatever fraction of its switches is AI-tagged.
C2_DistractingBeatsAiAssisted ==
  pc = "returned" =>
    \A l \in LoopsOf(summary) :
       (\E k \in 1..2 : BaselineCategory(l.apps[k]) \in DISTRACTING)
         => l.verdict = "distracting"

\* A distracting loop more than 30% of whose switches are AI-tagged.
C2_Witness ==
  /\ pc = "returned"
  /\ \E l \in LoopsOf(summary) :
       /\ l.verdict = "distracting"
       /\ \E k \in 1..2 : BaselineCategory(l.apps[k]) \in DISTRACTING
       /\ 10 * Cardinality(TaggedBetween(l.apps[1], l.apps[2]))
            > 3 * Cardinality(SwitchesBetween(l.apps[1], l.apps[2]))

\* the first switch between a and b
FirstSwitchBetween(a, b) ==
  CHOOSE i \in SwitchesBetween(a, b) : \A j \in SwitchesBetween(a, b) : i <= j

\* the unordered app pairs that occur in the switch sequence
SwitchedPairs == {{switches[i].from, switches[i].to} : i \in DOMAIN switches}

PairSwitchCount(pair) ==
  Cardinality({i \in DOMAIN switches : {switches[i].from, switches[i].to} = pair})

\* C3: death_loops holds only app pairs whose switch count, both directions summed, is
\* at least 20; it is in descending order of count, has at most 10 entries, and no pair
\* with count >= 20 that is left out has a larger count than a pair that is included.
C3_DeathLoopsThresholdOrderCap ==
  pc = "returned" =>
    LET loops == summary.death_loops
        listed == {{loops[i].apps[1], loops[i].apps[2]} : i \in DOMAIN loops}
    IN /\ \A i \in DOMAIN loops :
            /\ loops[i].count = PairSwitchCount({loops[i].apps[1], loops[i].apps[2]})
            /\ loops[i].count >= 20
       /\ \A i, j \in DOMAIN loops : i < j => loops[i].count >= loops[j].count
       /\ Len(loops) <= 10
       /\ \A out \in SwitchedPairs \ listed :
            PairSwitchCount(out) >= 20
              => \A i \in DOMAIN loops : PairSwitchCount(out) <= loops[i].count

\* Ten loops are listed, a pair that reached the threshold is left out, and the list is
\* not in the order in which the pairs first occurred.
C3_Witness ==
  /\ pc = "returned"
  /\ Len(summary.death_loops) = 10
  /\ \E out \in SwitchedPairs :
       /\ PairSwitchCount(out) >= 20
       /\ \A l \in LoopsOf(summary) : {l.apps[1], l.apps[2]} # out
  /\ \E i, j \in DOMAIN summary.death_loops :
       /\ i < j
       /\ FirstSwitchBetween(summary.death_loops[j].apps[1], summary.death_loops[j].apps[2])
            < FirstSwitchBetween(summary.death_loops[i].apps[1], summary.death_loops[i].apps[2])

\* C4: for non-negative durations and every rule set, productivity_score, focus_score and
\* combined_score are integers in [0, 100].
C4_ScoresInRange ==
  pc = "returned" =>
    /\ summary.scores.productivity_score \in 0..100
    /\ summary.scores.focus_score \in 0..100
    /\ summary.scores.combined_score \in 0..100

\* A run whose rescaled productivity is above 100, or below 0, before the clamp.
C4_Witness ==
  /\ pc = "returned"
  /\ total_active_time > 0
  /\ \/ scaled_productivity(raw_productivity) > 100
     \/ scaled_productivity(raw_productivity) < 0
  /\ summary.scores.productivity_score \in {0, 100}

\* C5 as claimed: on empty input productivity_score and combined_score are 0 and
\* focus_score is what the thresholds give for rate 0.
C5_AllZeroButFocus ==
  (pc = "returned" /\ file = <<>>) =>
    /\ summary.scores.productivity_score = 0
    /\ summary.scores.combined_score = 0
    /\ summary.scores.focus_score = 85

\* C5, amended: on empty input the run returns, productivity_score is 0, focus_score is
\* 85 (rate 0 with active_hours floored at 1) and combined_score is
\* int(0 * 0.6 + 85 * 0.4) = 34: the combined score carries the focus score's share.
C5_EmptyInputScores ==
  (pc \in {"returned", "raised"} /\ file = <<>>) =>
    /\ pc = "returned"
    /\ summary.scores.productivity_score = 0
    /\ summary.scores.focus_score = 85
    /\ summary.scores.combined_score = 34

\* The run on the empty file returned, with no event read and no active hour.
C5_Witness ==
  /\ pc = "returned"
  /\ file = <<>>
  /\ total_events = 0
  /\ active_hours = 0
  /\ summary.scores.focus_score = 85

SharesOfTotal(s) ==
  {s.category_breakdown[c].percentage : c \in DOMAIN s.category_breakdown}
    \cup {s.top_apps[a].percentage : a \in DOMAIN s.top_apps}

\* what C7 says of a returned summary
ZeroDenominatorsGiveZero ==
  pc = "returned" =>
    /\ total_active_time = 0 => summary.scores.productivity_score = 0
    /\ total_time = 0 => SharesOfTotal(summary) \subseteq {0}
    /\ days_tracked = 0 =>
         /\ summary.time_totals.average_active_per_day = 0
         /\ summary.context_switching.average_per_day = 0
    /\ browser_total_time = 0 =>
         /\ summary.browser_productivity.productive_pct = 0
         /\ summary.browser_productivity.distracting_pct = 0
    /\ \A h \in 0..23 :
         Get(hourly_activity, h) = 0 =>
           \/ h \notin DOMAIN summary.hourly_analysis.full_breakdown
           \/ summary.hourly_analysis.full_breakdown[h].productive_pct = 0
    /\ \A d \in DOMAIN summary.daily_trend :
         daily_activity[d] = 0 => summary.daily_trend[d].productive_pct = 0

\* C7: no ratio of the run raises on a zero denominator: once the rows are read the
\* summary is returned, with productivity_score 0 when active_time is 0 and with
\* percentage or average 0 where total time, the day count, the browser time or an
\* hour bucket is 0.
C7_NoZeroDivision ==
  /\ []ZeroDenominatorsGiveZero
  /\ [][(pc = "loop" /\ next_row > Len(file)) => pc' = "returned"]_vars

\* A summary returned with categories and apps recorded but total time, active time and
\* browser time all 0.
C7_Witness ==
  /\ pc = "returned"
  /\ total_time = 0 /\ total_active_time = 0 /\ browser_total_time = 0
  /\ DOMAIN summary.category_breakdown # {}
  /\ DOMAIN summary.top_apps # {}
  /\ days_tracked > 0

\* C9: after every prefix of the rows, no hour bucket and no day bucket of a category
\* holds more than the category's total.
C9_BucketsWithinCategoryTotal ==
  /\ \A k \in DOMAIN hourly_by_category :
       hourly_by_category[k] <= Get(category_time, k[2])
  /\ \A k \in DOMAIN daily_by_category :
       daily_by_category[k] <= Get(category_time, k[2])

\* A category whose time is spread over two hours of two days, each bucket holding part
\* of the total.
C9_Witness ==
  \E k1, k2 \in DOMAIN hourly_by_category :
    /\ k1[2] = k2[2] /\ k1[1] # k2[1]
    /\ hourly_by_category[k1] > 0 /\ hourly_by_category[k2] > 0
    /\ hourly_by_category[k1] < category_time[k1[2]]
    /\ \E d \in DOMAIN daily_by_category :
         d[2] = k1[2] /\ 0 < daily_by_category[d] /\ daily_by_category[d] < category_time[d[2]]

\* the row the loop reads next
CurrentRow == file[next_row]

\* the row is processed as one of duration 0 would be
ProcessedWithDurationZero(row) ==
  /\ pc' = "loop"
  /\ IF row.app \in idle_apps
     THEN UNCHANGED <<accumulators, prev_app, prev_title>>
     ELSE /\ prev_app' = row.app
          /\ row.app \in DOMAIN app_time'
          /\ app_time'[row.app] = Get(app_time, row.app)
          /\ SumValues(category_time') = SumValues(category_time)

\* C10: a row whose timestamp does not parse is skipped, changing no accumulator and no
\* switch state; a row whose duration is missing or invalid is processed with duration
\* 0; in neither case does the run abort.
C10_BadRowsNeverAbort ==
  [][(pc = "loop" /\ next_row <= Len(file)) =>
       /\ pc' = "loop"
       /\ ~CurrentRow.timestamp.parses =>
            UNCHANGED <<accumulators, prev_app, prev_title>>
       /\ (CurrentRow.timestamp.parses /\ CurrentRow.duration.kind # "number") =>
            ProcessedWithDurationZero(CurrentRow)]_vars

\* the side of switch s that is not the terminal (line 774)
OtherSide(s) == IF s.to = Terminal THEN s.from ELSE s.to

\* C11: a switch carries an ai_agent tag only if one side is the terminal and the
\* other side's baseline category is not communication_personal, social_media or
\* entertainment: a switch whose other side is distracting is never tagged.
C11_NoTagWhenOtherSideDistracting ==
  \A i \in DOMAIN switches :
     switches[i].ai_agent # None =>
       /\ Terminal \in {switches[i].from, switches[i].to}
       /\ BaselineCategory(OtherSide(switches[i])) \notin DISTRACTING

\* the switches entered in ai_assisted_switches, which holds 0-based indices (line 754)
AiAssistedSet == {ai_assisted_switches[k] + 1 : k \in DOMAIN ai_assisted_switches}

\* the switch a step appends is tagged with the agent the terminal side's title shows
NewSwitchTaggedFromTerminalTitle ==
  Len(switches') = Len(switches) + 1 =>
    LET s == switches'[Len(switches')]
        terminal_title == IF CurrentRow.app = Terminal THEN CurrentRow.title ELSE prev_title
    IN s.ai_agent = IF Terminal \in {s.from, s.to}
                    THEN detect_ai_agent(terminal_title) ELSE None

\* C11, amended: a switch is tagged ai_agent exactly with the agent that the title of its
\* terminal side shows, whatever the category of the other side; it is entered in
\* ai_assisted_switches exactly when it is tagged and the other side's baseline category
\* is not distracting.
C11_TagFromTitleCountFromCategory ==
  /\ [](\A i \in DOMAIN switches :
          /\ switches[i].ai_agent # None => Terminal \in {switches[i].from, switches[i].to}
          /\ i \in AiAssistedSet <=>
               /\ switches[i].ai_agent # None
               /\ BaselineCategory(OtherSide(switches[i])) \notin DISTRACTING)
  /\ [][NewSwitchTaggedFromTerminalTitle]_vars

\* A tagged switch with a distracting other side, not counted as AI-assisted, next to a
\* tagged switch that is counted.
C11_Witness ==
  \E i, j \in DOMAIN switches :
    /\ switches[i].ai_agent # None
    /\ BaselineCategory(OtherSide(switches[i])) \in DISTRACTING
    /\ i \notin AiAssistedSet
    /\ switches[j].ai_agent # None
    /\ j \in AiAssistedSet

\* hours of day whose accumulated activity is at least 300 s
HoursOfAtLeastFiveMinutes ==
  Cardinality({h \in DOMAIN hourly_activity : hourly_activity[h] >= 300})

\* the score the thresholds give for the rate  n / hours
FocusForRate(n, hours) ==
  IF n < 50 * hours THEN 85
  ELSE IF n < 100 * hours THEN 70
  ELSE IF n < 200 * hours THEN 55
  ELSE 40

\* C12: focus_score is the threshold value (85, 70, 55, 40 below 50, 100, 200, else) of
\* rate = (total_switches - ai_assisted_switch_count) / max(1, active_hours), active_hours
\* counting every hour of day with at least 300 s, an hour of exactly 300 s included.
C12_ActiveHourIsAtLeast300 ==
  pc = "returned" =>
    summary.scores.focus_score =
      FocusForRate(Len(switches) - Len(ai_assisted_switches),
                   Max(1, HoursOfAtLeastFiveMinutes))

\* C13: productivity_score is clamp(round(((raw + 0.5) / 1.5) * 100), 0, 100) with
\* raw = weighted_time / active_time: the rescaled value is rounded to the nearest integer
\* before it is clamped, not truncated.
C13_ProductivityIsRounded ==
  (pc = "returned" /\ total_active_time > 0) =>
    summary.scores.productivity_score =
      Max(0, Min(100, RoundHalfEven((2 * weighted_time + 10 * total_active_time) * 100,
                                    30 * total_active_time)))

\* C14: combined_score is productivity_score * 0.6 + focus_score * 0.4 rounded to the
\* nearest integer.
C14_CombinedIsRounded ==
  pc = "returned" =>
    summary.scores.combined_score =
      RoundHalfEven(6 * summary.scores.productivity_score + 4 * summary.scores.focus_score,
                    10)

\* the row is consumed: its timestamp parses and its app is not an idle app
Consumed(row) == row.timestamp.parses /\ row.app \notin idle_apps

\* the index of the last consumed row before row n, 0 when there is none
LastConsumedBefore(n) ==
  LET before == {i \in 1..(n - 1) : Consumed(file[i])}
  IN IF before = {} THEN 0 ELSE CHOOSE i \in before : \A j \in before : j <= i

\* C19: a Switch(from = a, to = b) is appended exactly when an event with app b is
\* consumed and the previously consumed event had app a # b; its hour and day are those
\* of the 'to' event in local time; it goes to the end of the sequence and the entries
\* before it are left as they were.
C19_SwitchPerChangeOfApp ==
  [][(pc = "loop" /\ next_row <= Len(file) /\ pc' = "loop") =>
       LET last == LastConsumedBefore(next_row)
       IN IF /\ Consumed(CurrentRow)
             /\ last # 0
             /\ file[last].app # CurrentRow.app
          THEN /\ Len(switches') = Len(switches) + 1
               /\ SubSeq(switches', 1, Len(switches)) = switches
               /\ LET s == switches'[Len(switches')]
                  IN /\ s.from = file[last].app
                     /\ s.to = CurrentRow.app
                     /\ s.hour = LocalTime(CurrentRow) % 24
                     /\ s.day = LocalTime(CurrentRow) \div 24
          ELSE switches' = switches]_vars

DEV_CATEGORIES == {"deep_work", "development"}

\* the number of the pair's switches tagged with agent
TaggedWith(a, b, agent) ==
  Cardinality({i \in TaggedBetween(a, b) : switches[i].ai_agent = agent})

\* what C20 says of one death loop l
VerdictAsSpecified(l) ==
  LET a == l.apps[1]
      b == l.apps[2]
      tagged == Cardinality(TaggedBetween(a, b))
      all == Cardinality(SwitchesBetween(a, b))
  IN /\ l.verdict \in {"distracting", "ai_assisted", "productive", "mixed"}
     /\ l.suggestion.text # ""
     /\ (BaselineCategory(a) \notin DISTRACTING /\ BaselineCategory(b) \notin DISTRACTING) =>
          IF 10 * tagged > 3 * all
          THEN /\ l.verdict = "ai_assisted"
               /\ l.ai_switches = tagged
               /\ l.ai_agent # None
               /\ \A i \in TaggedBetween(a, b) :
                    TaggedWith(a, b, l.ai_agent) >= TaggedWith(a, b, switches[i].ai_agent)
          ELSE IF BaselineCategory(a) \in DEV_CATEGORIES /\ BaselineCategory(b) \in DEV_CATEGORIES
          THEN l.verdict = "productive"
          ELSE l.verdict = "mixed"

\* C20: for a death loop with no distracting app the verdict is ai_assisted exactly when
\* more than 0.3 of the pair's switches are tagged, and the loop then records the pair's
\* most frequent agent and its count of tagged switches; otherwise it is productive
\* exactly when both baseline categories are deep_work or development, and mixed
\* otherwise.  Every death loop has one of the four verdicts and a suggestion.
C20_VerdictOfUndistractingLoop ==
  pc = "returned" => \A l \in LoopsOf(summary) : VerdictAsSpecified(l)

\* One returned loop of 20 switches is mixed with exactly 6 of them tagged; the fraction
\* 0.3 is not above 0.3.
C20_Witness ==
  /\ pc = "returned"
  /\ \E l \in LoopsOf(summary) :
       /\ l.verdict = "mixed"
       /\ l.count = 20
       /\ Cardinality(TaggedBetween(l.apps[1], l.apps[2])) = 6

\* the Focus Guard processes that are inside a guard loop
InLoop == {g \in Guards : at[g] = "loop"}

\* C15: at most one Focus Guard process is inside a guard loop at any time, for every
\* interleaving of concurrent starts: a process started while another one is running
\* returns without writing the PID file and without entering the loop.
C15_AtMostOneGuardInLoop == Cardinality(InLoop) <= 1

\* C16: in auto-detect mode focus mode is activated only after at least trigger_minutes
\* minutes during which a deep-work app was the frontmost app; the time another app was
\* frontmost does not count toward the trigger.
C16_ActivatedAfterTriggerOfDeepWork ==
  [][(~focus_active /\ focus_active') => deep_work_seconds' >= trigger_minutes * 60]_vars

\* the guard of process 1 makes a loop iteration in this step
Polls == clock' # clock

\* C17: in auto-detect mode, once focus mode is active, a poll deactivates it exactly
\* when it finds a non-deep-work app frontmost and at least cooldown_minutes have passed
\* since a deep-work app was last seen frontmost; nothing else deactivates it, so it is
\* never deactivated while a deep-work app is frontmost; and while the guard runs and no
\* deep-work app becomes frontmost again, it is eventually deactivated.
C17_DeactivatedExactlyAfterCooldown ==
  /\ [][(focus_active /\ Polls) =>
          (~focus_active' <=>
             (/\ ~IsDeepWork(frontmost')
              /\ clock - last_deep_work >= cooldown_minutes * 60))]_vars
  /\ [][(focus_active /\ ~Polls) => focus_active']_vars
  /\ (focus_active /\ ~IsDeepWork(frontmost) /\ at[1] = "loop")
       ~> (~focus_active \/ IsDeepWork(frontmost) \/ at[1] # "loop")

\* focus mode has been deactivated by a poll cooldown_minutes or more after the last
\* deep-work poll
C17_Witness ==
  /\ ~focus_active
  /\ deep_work_start = NoTime
  /\ last_deep_work # NoTime
  /\ ~IsDeepWork(frontmost)
  /\ now - last_deep_work >= cooldown_minutes * 60
  /\ now - last_deep_work < cooldown_minutes * 60 + CheckInterval

\* quit_app is called in this step
Quits == last_quit' # last_quit

\* C18: in warn-only mode, which is the mode when neither flag is given, Focus Guard
\* never quits an application; in hard-block mode a blocked app is quit only when the
\* grace period has passed since it was found and it is still running at that moment.
C18_QuitOnlyInHardBlockAfterGrace ==
  /\ [](args = NoFlags => warn_only)
  /\ [](warn_only => last_quit = NoQuit)
  /\ [][Quits =>
          /\ ~warn_only
          /\ last_quit'.app \in blocked_apps
          /\ last_quit'.app \in processes
          /\ last_quit'.time = clock'
          /\ last_quit'.time - last_quit'.warned >= grace_period]_vars

\* in hard-block mode an app has been quit, grace_period after it was found running
C18_Witness ==
  /\ ~warn_only
  /\ last_quit # NoQuit
  /\ last_quit.app \in blocked_apps
  /\ last_quit.time - last_quit.warned = grace_period

\* C21: an event of an idle app adds its duration to idle_time and changes nothing
\* else: the per-app, per-category, per-hour and per-day totals, the browser totals,
\* weighted_time, total_active_time, the switches and the remembered previous app and
\* title stay as they were.
C21_IdleEventAddsToIdleTimeOnly ==
  [][(pc = "loop" /\ next_row <= Len(file) /\ CurrentRow.app \in idle_apps) =>
       /\ UNCHANGED <<app_time, category_time, hourly_activity, hourly_by_category,
                      daily_activity, daily_by_category, hourly_switches, switches,
                      browser_titles, browser_sites, browser_total_time, ai_agent_time,
                      ai_assisted_switches, weighted_time, total_active_time,
                      prev_app, prev_title>>
       /\ (CurrentRow.timestamp.parses /\ CurrentRow.duration.kind # "invalid") =>
            idle_time' = idle_time + DurationOf(CurrentRow)]_vars

\* an idle event has just been consumed after an active one
C21_Witness ==
  /\ pc = "loop"
  /\ next_row > 2
  /\ file[next_row - 1].app \in idle_apps
  /\ file[next_row - 1].timestamp.parses
  /\ idle_time > 0
  /\ Truthy(prev_app)
  /\ prev_app \notin idle_apps

\* the death loops of the returned summary whose verdict is distracting
DistractingLoops ==
  {i \in DOMAIN summary.death_loops : summary.death_loops[i].verdict = "distracting"}

\* the top browser activities, of the first ten, that are categorized entertainment or
\* social_media and hold more than 3600 s
BlockableActivities ==
  {i \in 1..Min(Len(sorted_browser), 10) :
     /\ categorize_activity(<<"b", "r", "o", "w", "s", "e", "r">>, sorted_browser[i].key)
          .category \in {"entertainment", "social_media"}
     /\ sorted_browser[i].value > 3600}

\* C22: the one-change recommendation is the suggestion of the first death loop, in
\* count-descending order, whose verdict is distracting, whatever is ranked above it;
\* with death loops none of which is distracting, a block suggestion for the first top
\* browser activity that is entertainment or social media with more than 3600 s, or the
\* generic batching suggestion when there is none; with no death loops, the generic
\* notification-blocking suggestion.
C22_OneChangeRecommendation ==
  (pc = "returned") =>
    LET loops == summary.death_loops
        one_change == summary.insights.one_change
    IN /\ loops = <<>> =>
            one_change.text = "Protect your peak productive hours by blocking notifications"
       /\ DistractingLoops # {} =>
            \E i \in DistractingLoops :
               /\ \A j \in DistractingLoops : i <= j
               /\ one_change.text = "Block {} during focus hours"
               /\ one_change = loops[i].suggestion
       /\ (loops # <<>> /\ DistractingLoops = {} /\ BlockableActivities # {}) =>
            \E i \in BlockableActivities :
               /\ \A j \in BlockableActivities : i <= j
               /\ one_change.text = "Block '{}' during work hours (spent {}h)"
               /\ one_change.app = Prefix(sorted_browser[i].key, 30)
       /\ (loops # <<>> /\ DistractingLoops = {} /\ BlockableActivities = {}) =>
            one_change.text =
              "Batch check communication apps 3x daily instead of continuously"

\* a mixed loop is ranked above the first distracting loop, whose suggestion is the
\* recommendation
C22_Witness ==
  /\ pc = "returned"
  /\ \E i, j \in DOMAIN summary.death_loops :
       /\ i < j
       /\ summary.death_loops[i].verdict = "mixed"
       /\ j \in DistractingLoops
       /\ \A k \in DistractingLoops : j <= k
       /\ summary.insights.one_change = summary.death_loops[j].suggestion

\* the hours of a list of the returned summary
HoursIn(list) == {list[i] : i \in DOMAIN list}

\* list holds up to five hours of candidates, those with the highest key, highest first
TopFiveBy(list, candidates, key(_)) ==
  /\ Len(list) = Min(Cardinality(candidates), 5)
  /\ HoursIn(list) \subseteq candidates
  /\ \A i, j \in DOMAIN list : i < j => list[i] # list[j] /\ key(list[i]) >= key(list[j])
  /\ \A h \in candidates \ HoursIn(list) : \A g \in HoursIn(list) : key(h) <= key(g)

\* the switches counted in hour h of the day
SwitchesInHour(h) == Get(hourly_switches, h)

\* the hours of day in which anything was recorded
HoursOfDay == DOMAIN hourly_activity

\* the rounded productive percentage of an hour with activity
ProductivePctOf(h) == RoundScaled(hour_productive_pct(h), 100, 10)

\* peak-productive list: the up-to-five hours with the highest productive percentage
\* among the hours with at least 300 s of activity
PeakHoursAsSpecified ==
  TopFiveBy(summary.hourly_analysis.peak_productive_hours,
            {h \in HoursOfDay : hourly_activity[h] >= 300}, ProductivePctOf)

\* C23: the danger-hours list holds the up-to-five hours of day with the highest raw
\* switch counts, in descending order, and no hour left out of it has more switches
\* than an hour in it; the peak-productive list holds the up-to-five hours with the
\* highest productive-time percentage among the hours with at least 300 s of activity.
C23_TopFiveHours ==
  (pc = "returned") =>
    LET danger == summary.hourly_analysis.danger_zones
    IN /\ Len(danger) <= 5
       /\ HoursIn(danger) \subseteq HoursOfDay
       /\ \A i, j \in DOMAIN danger :
             i < j => SwitchesInHour(danger[i]) >= SwitchesInHour(danger[j])
       /\ \A h \in HoursOfDay \ HoursIn(danger) : \A g \in HoursIn(danger) :
             SwitchesInHour(h) <= SwitchesInHour(g)
       /\ PeakHoursAsSpecified

\* What a title holds, in lower case
TitleHas(word) == Contains(word, lower(cat_title))

TitleHasCopilot ==
  \/ TitleHas(<<"g", "h", " ", "c", "o", "p", "i", "l", "o", "t">>)
  \/ TitleHas(<<"g", "i", "t", "h", "u", "b", " ", "c", "o", "p", "i", "l", "o", "t">>)

\* The agent of the fixed order, given which titles count as Claude Code
AgentInOrder(is_claude) ==
  IF is_claude THEN "claude_code"
  ELSE IF TitleHas(<<"c", "o", "d", "e", "x">>) THEN "codex"
  ELSE IF TitleHas(<<"a", "i", "d", "e", "r">>) THEN "aider"
  ELSE IF TitleHasCopilot THEN "copilot"
  ELSE None

NoKeywordInTitle == known_site_from(1, lower(cat_title)) = 0

\* The trailing segments of the title: what follows the last occurrence of a
\* separator that occurs in it, when that is under 40 characters, as it stands or
\* without the spaces around it
TrailingSegments ==
  UNION {{AfterLast(cat_title, Separators[i]), strip(AfterLast(cat_title, Separators[i]))} :
           i \in {k \in 1..Len(Separators) :
                    /\ Contains(Separators[k], cat_title)
                    /\ Len(AfterLast(cat_title, Separators[k])) < SITE_NAME_MAX}}

\* C25 as stated: for every title in which no known-site keyword occurs,
\* extract_site_from_title returns category uncategorized with weight 0 and a
\* non-empty site name of at most 40 characters: a trailing segment after a
\* separator when that is under 40 characters, otherwise the title cut to 40
\* characters with an ellipsis, or Unknown when the title is empty.
C25_UncategorizedSiteNameNonEmpty ==
  pc = "extracted" /\ NoKeywordInTitle =>
    /\ cat_ret.category = "uncategorized"
    /\ cat_ret.weight = 0
    /\ cat_ret.site # <<>>
    /\ Len(cat_ret.site) <= SITE_NAME_MAX
    /\ IF TrailingSegments # {} THEN cat_ret.site \in TrailingSegments
       ELSE IF cat_title = <<>> THEN cat_ret.site = <<"U", "n", "k", "n", "o", "w", "n">>
       ELSE IF Len(cat_title) > SITE_NAME_MAX
            THEN cat_ret.site = Prefix(cat_title, SITE_NAME_MAX - 3) \o <<".", ".", ".">>
       ELSE cat_ret.site = cat_title

\* C26: in manual and in auto-detect mode, whatever the check interval and the
\* grace period, two consecutive warnings or block actions for the same blocked
\* app are more than 30 seconds apart: a block that waits for its grace period
\* was issued more than 30 seconds after the app's last one, and whenever the
\* time of an app's last warning changes it moves on by more than 30 seconds.
C26_WarningsMoreThan30SecondsApart ==
  /\ [](at[1] = "grace" => now - recently_warned[blocked_app] > 30)
  /\ [][\A app \in blocked_apps :
          recently_warned'[app] # recently_warned[app]
            => recently_warned'[app] - recently_warned[app] > 30]_vars

\* in hard-block mode with a check interval of 20 seconds an app that was quit has
\* been blocked a second time, 40 seconds after the first: the poll in between
\* passed it over
C26_Witness ==
  /\ pc = "run_guard"
  /\ settings.check_interval = 20
  /\ \E app \in blocked_apps :
       /\ last_quit.app = app
       /\ recently_warned[app] = last_quit.warned + 40

\* C27: a manual focus session started with a duration eventually ends, and
\* whenever the loop has been left (duration reached, signal or exception) the
\* PID file is gone, so that is_running finds no guard.
C27_SessionWithDurationEnds ==
  /\ (at[1] = "loop" /\ duration_hours # NoDuration) ~> at[1] = "exited"
  /\ [](at[1] = "exited" => pid_file = NoPid)

\* The rows read so far that reached the aggregations: the timestamp parses and
\* the app is not an idle app
AggregatedRows ==
  {i \in 1..(next_row - 1) : file[i].timestamp.parses /\ file[i].app \notin idle_apps}

\* The total duration of the non-idle events consumed so far
ConsumedDuration == SumOver([i \in 1..Len(file) |-> DurationOf(file[i])], AggregatedRows)

\* The categories seen so far
CategoriesSoFar ==
  DOMAIN category_time
    \cup {k[2] : k \in DOMAIN hourly_by_category} \cup {k[2] : k \in DOMAIN daily_by_category}

\* C28: after every prefix of the event sequence the sums of the per-app, the
\* per-category, the per-hour and the per-day totals all equal the total
\* duration of the non-idle events consumed so far, and for each category the
\* sum of its hourly totals and the sum of its daily totals equal its total.
C28_AggregationsConserveTime ==
  [](pc \in {"loop", "raised"} =>
       /\ SumValues(app_time) = ConsumedDuration
       /\ SumValues(category_time) = ConsumedDuration
       /\ SumValues(hourly_activity) = ConsumedDuration
       /\ SumValues(daily_activity) = ConsumedDuration
       /\ \A c \in CategoriesSoFar :
            /\ SumOver(hourly_by_category, {k \in DOMAIN hourly_by_category : k[2] = c})
                 = Get(category_time, c)
            /\ SumOver(daily_by_category, {k \in DOMAIN daily_by_category : k[2] = c})
                 = Get(category_time, c))

\* rows of two apps, two categories, two hours and two days have been read and
\* more rows follow
C28_Witness ==
  /\ pc = "loop"
  /\ next_row <= Len(file)
  /\ Cardinality(DOMAIN app_time) >= 2
  /\ Cardinality(DOMAIN category_time) >= 2
  /\ Cardinality(DOMAIN hourly_activity) >= 2
  /\ Cardinality(DOMAIN daily_activity) >= 2
  /\ ConsumedDuration > 0

\* C29: after any event sequence the switch accounting is consistent: every
\* switch has from # to, the hourly switch counts and, once the rows are read
\* and the pairs are counted, the per-pair counts each sum to total_switches,
\* the ai-assisted switches are distinct switches (so
\* there are between 0 and total_switches of them and human_switches, which is
\* total_switches less their number, is not negative), and every ai-assisted
\* switch has Terminal on one side.
C29_SwitchAccountingConsistent ==
  [](/\ \A i \in 1..Len(switches) : switches[i].from # switches[i].to
     /\ next_row > Len(file) =>
          LET counts == pair_counts(switches)
          IN SumOver([k \in 1..Len(counts) |-> counts[k].value], 1..Len(counts))
               = total_switches
     /\ SumValues(hourly_switches) = total_switches
     /\ AiAssistedSet \subseteq 1..total_switches
     /\ Cardinality(AiAssistedSet) = Len(ai_assisted_switches)
     /\ Len(ai_assisted_switches) <= total_switches
     /\ human_switches >= 0
     /\ \A i \in AiAssistedSet : Terminal \in {switches[i].from, switches[i].to}
     /\ pc = "returned" =>
          /\ summary.context_switching.total_switches = total_switches
          /\ summary.context_switching.human_switches >= 0
          /\ summary.context_switching.human_switches
               + summary.context_switching.ai_assisted_switches = total_switches)

\* a summary has been returned for a file with switches of two pairs in two
\* hours, some of them ai-assisted and some not
C29_Witness ==
  /\ pc = "returned"
  /\ Len(pair_counts(switches)) >= 2
  /\ Cardinality(DOMAIN hourly_switches) >= 2
  /\ Len(ai_assisted_switches) > 0
  /\ human_switches > 0

\* C30: in the auto-detect loop, while focus mode is active deep_work_start and
\* last_deep_work are set; a blocked app is warned about only in a poll that
\* leaves focus mode active; a deactivation puts deep_work_start back to None,
\* a deep_work_start that was None is set to the time of the poll that sets it,
\* and focus mode is activated no sooner than trigger_minutes after it.
C30_FocusActiveHasDeepWorkStart ==
  /\ [](focus_active => deep_work_start # NoTime /\ last_deep_work # NoTime)
  /\ [][recently_warned' # recently_warned => focus_active']_vars
  /\ [][focus_active /\ ~focus_active' => deep_work_start' = NoTime]_vars
  /\ [][deep_work_start = NoTime /\ deep_work_start' # NoTime
          => deep_work_start' = now']_vars
  /\ [][~focus_active /\ focus_active'
          => now' - deep_work_start' >= settings.trigger_minutes * 60]_vars

\* focus mode is active for the second time: a blocked app was warned about
\* before the deep work that activated it began
C30_Witness ==
  /\ focus_active
  /\ \E app \in blocked_apps :
       /\ recently_warned[app] # 0
       /\ recently_warned[app] < deep_work_start
====
